---- MODULE Spec2Model ----
(***************************************************************************)
(* A model of the mini_autogpt agent loop: the Memory Store                *)
(* (think/memory.py), the Gateway client (utils/llm.py), the decision      *)
(* validator and retry engine (action/action_decisions.py), the command    *)
(* dispatcher (action/action_execute.py) and the main loop (main.py,       *)
(* think/think.py as kept in output.py).                                   *)
(***************************************************************************)
EXTENDS Integers, Sequences, FiniteSets, TLC

(***************************************************************************)
(* Program constants.                                                      *)
(***************************************************************************)
MAX_FAILURES == 100

RESPONSE_HISTORY_CAP == 20

THOUGHT_HISTORY_CAP == 10

SEND_MAX_RETRIES == 3

\* memory.py: the token thresholds of the three getters and of chunk_text
RESPONSE_TOKENS == 500

THOUGHT_TOKENS == 200

CONVERSATION_TOKENS == 3000

CHUNK_TOKENS == 3000

\* action_execute.py: the search attempts of web_search
DUCKDUCKGO_MAX_ATTEMPTS == 3

(***************************************************************************)
(* Bounds of the model.                                                    *)
(***************************************************************************)
\* calls of the search capability whose outcomes are laid down for one web_search
MaxSearchCalls == 4

\* response-history entries written by the take_action calls of the dispatch
\* specification
MaxExecuted == 2

\* run_think calls main_loop starts in the interrupt specification
MaxTurns == 8

\* words of a text handed to chunk_text, the length of a word, the budget
MaxWords == 3

MaxWordLen == 8

MaxBudget == 2

\* add_to_response_history calls of each of the two instances
MaxAdds == 2

\* take_action calls between the decide calls of the counter specification
MaxDispatched == 1

\* the failure counter at the start of a decide call in the repair specification
MaxStartFailures == 2

\* items of the conversation history handed to build_context
MaxContextItems == 2

\* entries of the stored history a getter is called on
MaxStored == 3

\* insertions into the conversation history and into the memories
MaxOtherInserts == 2

\* largest value of system.max_retries among the configurations validated
MaxRetriesInput == 11

\* nesting depth of the JSON values fed to validate_json
MaxDepth == 2

\* insertions into each history in the Memory Store specification
MaxResponseInserts == 22

MaxThoughtInserts == 12

\* how far past MAX_FAILURES the failure counter is followed
MaxOverrun == 2

\* run_think calls followed in the main loop
MaxIterations == 2

\* failures the decisions of one run of the main loop may count
MaxLoopFailures == 1

(***************************************************************************)
(* Python / JSON values.  Every kind of value has its own record shape, so *)
(* that values of different kinds are simply unequal.                      *)
(***************************************************************************)
PyNone == [t |-> "None"]

JNull == [t |-> "null"]

JBool(b) == [t |-> "bool", b |-> b]

JInt(n) == [t |-> "int", n |-> n]

JFloat(x) == [t |-> "float", x |-> x]

JStr(s) == [t |-> "str", s |-> s]

JList(elems) == [t |-> "list", elems |-> elems]

\* a dict is its items in insertion order, each [key, val]
JDict(items) == [t |-> "dict", items |-> items]

\* a Python str holding text to be parsed: the sequence of its lexical tokens
PyText(toks) == [t |-> "text", toks |-> toks]

(***************************************************************************)
(* Tokens of a text.  "p" punctuation, "s" a string literal (v is its      *)
(* content), "i" an integer literal, "f" a float literal, "l" one of       *)
(* true/false/null, "w" a word of prose.                                   *)
(***************************************************************************)
Tok(k, v) == [k |-> k, v |-> v]

LBrace == Tok("p", "{")

RBrace == Tok("p", "}")

LBracket == Tok("p", "[")

RBracket == Tok("p", "]")

Colon == Tok("p", ":")

Comma == Tok("p", ",")

Word(w) == Tok("w", w)

\* str.isidentifier() on the strings the model uses as keys
NonIdentifiers == {"a b", "", "1x"}

isidentifier(s) == s \notin NonIdentifiers

(***************************************************************************)
(* dict[key] = val on an items sequence: a repeated key keeps its place    *)
(* and takes the last value, as json.loads builds a dict.                  *)
(***************************************************************************)
HasKey(items, key) == \E i \in 1..Len(items) : items[i].key = key

DictSet(items, key, val) ==
    IF HasKey(items, key)
    THEN [i \in 1..Len(items) |->
            IF items[i].key = key THEN [key |-> key, val |-> val] ELSE items[i]]
    ELSE Append(items, [key |-> key, val |-> val])

DictGet(items, key) ==
    items[CHOOSE i \in 1..Len(items) : items[i].key = key].val

\* command["command"]["name"] and command["command"]["args"] can be read
HasEnvelopeKeys(command) ==
    /\ command.t = "dict"
    /\ HasKey(command.items, "command")
    /\ DictGet(command.items, "command").t = "dict"
    /\ HasKey(DictGet(command.items, "command").items, "name")
    /\ HasKey(DictGet(command.items, "command").items, "args")

(***************************************************************************)
(* json.dumps: a value to the tokens of its text.                          *)
(***************************************************************************)
RECURSIVE dumps(_)
RECURSIVE dumps_items(_, _)
RECURSIVE dumps_elems(_, _)
dumps(v) ==
    CASE v.t = "null"  -> <<Tok("l", "null")>>
      [] v.t = "bool"  -> <<Tok("l", IF v.b THEN "true" ELSE "false")>>
      [] v.t = "int"   -> <<Tok("i", v.n)>>
      [] v.t = "float" -> <<Tok("f", v.x)>>
      [] v.t = "str"   -> <<Tok("s", v.s)>>
      [] v.t = "list"  -> <<LBracket>> \o dumps_elems(v.elems, 1) \o <<RBracket>>
      [] v.t = "dict"  -> <<LBrace>> \o dumps_items(v.items, 1) \o <<RBrace>>

dumps_items(items, i) ==
    IF i > Len(items) THEN <<>>
    ELSE (IF i > 1 THEN <<Comma>> ELSE <<>>)
         \o <<Tok("s", items[i].key), Colon>> \o dumps(items[i].val)
         \o dumps_items(items, i + 1)

dumps_elems(elems, i) ==
    IF i > Len(elems) THEN <<>>
    ELSE (IF i > 1 THEN <<Comma>> ELSE <<>>)
         \o dumps(elems[i]) \o dumps_elems(elems, i + 1)

(***************************************************************************)
(* json.JSONDecoder().decode / json.loads: a recursive-descent parse of    *)
(* the tokens.  A parse is [ok, val, next]; a failed one is [ok |-> FALSE] *)
(* (the JSONDecodeError).                                                  *)
(***************************************************************************)
ParseFail == [ok |-> FALSE]

ParseOk(val, next) == [ok |-> TRUE, val |-> val, next |-> next]

RECURSIVE ParseValue(_, _)
RECURSIVE ParseMembers(_, _, _)
RECURSIVE ParseElements(_, _, _)
ParseValue(toks, i) ==
    IF i > Len(toks) THEN ParseFail
    ELSE LET tk == toks[i] IN
         CASE tk.k = "s" -> ParseOk(JStr(tk.v), i + 1)
           [] tk.k = "i" -> ParseOk(JInt(tk.v), i + 1)
           [] tk.k = "f" -> ParseOk(JFloat(tk.v), i + 1)
           [] tk.k = "l" -> ParseOk(IF tk.v = "null" THEN JNull
                                    ELSE JBool(tk.v = "true"), i + 1)
           [] tk = LBrace ->
                IF i + 1 <= Len(toks) /\ toks[i + 1] = RBrace
                THEN ParseOk(JDict(<<>>), i + 2)
                ELSE ParseMembers(toks, i + 1, <<>>)
           [] tk = LBracket ->
                IF i + 1 <= Len(toks) /\ toks[i + 1] = RBracket
                THEN ParseOk(JList(<<>>), i + 2)
                ELSE ParseElements(toks, i + 1, <<>>)
           [] OTHER -> ParseFail

ParseMembers(toks, i, acc) ==
    IF i + 1 > Len(toks) \/ toks[i].k # "s" \/ toks[i + 1] # Colon
    THEN ParseFail
    ELSE LET r == ParseValue(toks, i + 2) IN
         IF ~r.ok THEN ParseFail
         ELSE LET acc2 == DictSet(acc, toks[i].v, r.val)
                  j == r.next
              IN  IF j > Len(toks) THEN ParseFail
                  ELSE IF toks[j] = RBrace THEN ParseOk(JDict(acc2), j + 1)
                  ELSE IF toks[j] = Comma THEN ParseMembers(toks, j + 1, acc2)
                  ELSE ParseFail

ParseElements(toks, i, acc) ==
    LET r == ParseValue(toks, i) IN
    IF ~r.ok THEN ParseFail
    ELSE LET acc2 == Append(acc, r.val)
             j == r.next
         IN  IF j > Len(toks) THEN ParseFail
             ELSE IF toks[j] = RBracket THEN ParseOk(JList(acc2), j + 1)
             ELSE IF toks[j] = Comma THEN ParseElements(toks, j + 1, acc2)
             ELSE ParseFail

\* the whole text must be one value: trailing tokens are "Extra data"
json_loads(toks) ==
    LET r == ParseValue(toks, 1) IN
    IF r.ok /\ r.next = Len(toks) + 1 THEN r ELSE ParseFail

(***************************************************************************)
(* action_decisions.validate_json.  test_response is None, a dict or a     *)
(* str.  A str is decoded first ("test_response is str" compares the value *)
(* with the type and is never true, so the last branch decodes it); a      *)
(* decode error, and a decoded value that has no items(), end in the       *)
(* except branch and give False.  Only the top-level items are looked at.  *)
(***************************************************************************)
ValueTypeOk(v) == v.t \in {"int", "str", "bool", "dict"}

ItemsOk(items) ==
    \A i \in 1..Len(items) :
        isidentifier(items[i].key) /\ ValueTypeOk(items[i].val)

\* validate_json without the key test
validate_json_no_key_test(test_response) ==
    IF test_response = PyNone THEN FALSE
    ELSE IF test_response.t = "dict"
         THEN \A i \in 1..Len(test_response.items) :
                 ValueTypeOk(test_response.items[i].val)
    ELSE LET r == json_loads(test_response.toks) IN
         r.ok /\ r.val.t = "dict"
         /\ \A i \in 1..Len(r.val.items) : ValueTypeOk(r.val.items[i].val)

validate_json(test_response) ==
    IF test_response = PyNone THEN FALSE
    ELSE IF test_response.t = "dict" THEN ItemsOk(test_response.items)
    ELSE LET r == json_loads(test_response.toks) IN
         IF ~r.ok THEN FALSE
         ELSE IF r.val.t # "dict" THEN FALSE
         ELSE ItemsOk(r.val.items)

(***************************************************************************)
(* action_decisions.extract_json_from_response: the text from the first    *)
(* "{" to the last "}" parsed as JSON; None when there is no such span or  *)
(* it does not parse.                                                      *)
(***************************************************************************)
\* str.find / str.rfind of a one-character token; 0 stands for -1
find(toks, tk) ==
    IF \E i \in 1..Len(toks) : toks[i] = tk
    THEN CHOOSE i \in 1..Len(toks) :
            toks[i] = tk /\ \A j \in 1..(i - 1) : toks[j] # tk
    ELSE 0

rfind(toks, tk) ==
    IF \E i \in 1..Len(toks) : toks[i] = tk
    THEN CHOOSE i \in 1..Len(toks) :
            toks[i] = tk /\ \A j \in (i + 1)..Len(toks) : toks[j] # tk
    ELSE 0

\* extract_json_from_response cutting at the first "}"
extract_json_to_first_close(response_text) ==
    LET start_index == find(response_text.toks, LBrace)
        end_index == find(response_text.toks, RBrace)
    IN  IF start_index # 0 /\ end_index # 0 /\ end_index > start_index
        THEN LET r == json_loads(SubSeq(response_text.toks, start_index, end_index))
             IN  IF r.ok THEN r.val ELSE PyNone
        ELSE PyNone

extract_json_from_response(response_text) ==
    LET start_index == find(response_text.toks, LBrace)
        end_index == rfind(response_text.toks, RBrace)
    IN  IF start_index # 0 /\ end_index # 0 /\ end_index > start_index
        THEN LET r == json_loads(SubSeq(response_text.toks, start_index, end_index))
             IN  IF r.ok THEN r.val ELSE PyNone
        ELSE PyNone

(***************************************************************************)
(* The texts the Gateway may answer with.                                  *)
(***************************************************************************)
Item(key, val) == [key |-> key, val |-> val]

Envelope(name, args) ==
    JDict(<<Item("command", JDict(<<Item("name", JStr(name)), Item("args", args)>>))>>)

MessageArgs == JDict(<<Item("message", JStr("hi"))>>)

QueryArgs == JDict(<<Item("query", JStr("X"))>>)

\* {"command": {"name": "send_message", "args": {"message": "hi"}}}
SendMessageText == PyText(dumps(Envelope("send_message", MessageArgs)))

AskUserText == PyText(dumps(Envelope("ask_user", MessageArgs)))

WebSearchText == PyText(dumps(Envelope("web_search", QueryArgs)))

HistoryText == PyText(dumps(Envelope("conversation_history", JDict(<<>>))))

UnknownCommandText == PyText(dumps(Envelope("fly", JDict(<<>>))))

\* here is my answer: {...} thanks
WrappedText ==
    PyText(<<Word("here"), Word("is"), Word("my"), Word("answer:")>>
           \o dumps(Envelope("send_message", MessageArgs)) \o <<Word("thanks")>>)

\* {"foo": 1}: well-typed, no command
NoCommandText == PyText(dumps(JDict(<<Item("foo", JInt("1"))>>)))

\* {"command": {"name": "web_search", "args": {"query": ["X"]}}}
NestedArrayText ==
    PyText(dumps(Envelope("web_search", JDict(<<Item("query", JList(<<JStr("X")>>))>>))))

\* {"a b": 1}: parses, the key is no identifier
BadKeyText == PyText(dumps(JDict(<<Item("a b", JInt("1"))>>)))

\* {"command": ["send_message"]}: parses, the value is an array
ArrayValueText == PyText(dumps(JDict(<<Item("command", JList(<<JStr("send_message")>>))>>)))

\* sure: {"command": null} ok
WrappedNullText ==
    PyText(<<Word("sure:")>> \o dumps(JDict(<<Item("command", JNull)>>)) \o <<Word("ok")>>)

\* I am sorry
ProseText == PyText(<<Word("I"), Word("am"), Word("sorry")>>)

\* { oops }
BrokenBracesText == PyText(<<LBrace, Word("oops"), RBrace>>)

\* ["send_message"]
ArrayText == PyText(dumps(JList(<<JStr("send_message")>>)))

\* {"foo": 1} {"foo": 1}
TwoObjectsText == PyText(NoCommandText.toks \o NoCommandText.toks)

\* texts that do not parse as one JSON value, with or without the repair
UnparsableTexts == {ProseText, BrokenBracesText, TwoObjectsText}

GatewayContents ==
    {SendMessageText, AskUserText, WebSearchText, HistoryText, UnknownCommandText,
     WrappedText, NoCommandText, NestedArrayText, BadKeyText, ArrayValueText,
     WrappedNullText, ArrayText, PyNone}
    \cup UnparsableTexts

(***************************************************************************)
(* One HTTP exchange with the model server, as requests.post ends.         *)
(***************************************************************************)
ConnError == [h |-> "conn_error"]

OtherError == [h |-> "other_error"]

Http(status, body) == [h |-> "http", status |-> status, body |-> body]

NotJsonBody == [b |-> "not_json"]

ErrorBody == [b |-> "error"]

NoChoicesBody == [b |-> "no_choices"]

EmptyChoicesBody == [b |-> "empty_choices"]

ContentBody(c) == [b |-> "content", content |-> c]

Bodies ==
    {NotJsonBody, ErrorBody, NoChoicesBody, EmptyChoicesBody}
    \cup {ContentBody(c) : c \in GatewayContents}

Statuses == {200, 404, 500}

HttpOutcomes ==
    {ConnError, OtherError} \cup {Http(s, b) : s \in Statuses, b \in Bodies}

\* what the attempts after the first may be, and what a retried attempt was
LaterOutcomes == {ConnError, Http(500, NotJsonBody), Http(200, ContentBody(SendMessageText))}

RetriedOutcomes == {ConnError, Http(500, NotJsonBody)}

AttemptSeqs ==
    {<<o, a, b>> : o \in HttpOutcomes, a \in LaterOutcomes, b \in LaterOutcomes}
    \cup {<<r, o, a>> : r \in RetriedOutcomes, o \in HttpOutcomes, a \in LaterOutcomes}
    \cup {<<r, q, o>> : r \in RetriedOutcomes, q \in RetriedOutcomes, o \in HttpOutcomes}

ServerTypes == {"lmstudio", "ollama", "oobabooga"}

(***************************************************************************)
(* llm.send.  The result is exit(1) (SystemExit, which no "except          *)
(* Exception" catches), None (the while loop ran out) or the response.     *)
(***************************************************************************)
SysExit == [kind |-> "exit"]

NoResponse == [kind |-> "none"]

Response(status, body) == [kind |-> "response", status |-> status, body |-> body]

RECURSIVE send_loop(_, _, _)
send_loop(llm_server_type, attempts, retry_count) ==
    IF ~(retry_count < SEND_MAX_RETRIES) THEN NoResponse
    ELSE LET a == attempts[1]
             rest == Tail(attempts)
         IN
         IF a = ConnError
         THEN IF retry_count + 1 < SEND_MAX_RETRIES
              THEN send_loop(llm_server_type, rest, retry_count + 1)
              ELSE SysExit
         ELSE IF a = OtherError THEN SysExit
         ELSE CASE llm_server_type = "lmstudio" ->
                     IF a.body \in {NotJsonBody, ErrorBody} THEN SysExit
                     ELSE Response(a.status, a.body)
                [] llm_server_type = "ollama" ->
                     IF a.status # 200
                     THEN IF a.status = 404 THEN SysExit
                          ELSE send_loop(llm_server_type, rest, retry_count + 1)
                     ELSE Response(a.status, a.body)
                [] llm_server_type = "oobabooga" ->
                     IF a.status # 200 THEN SysExit
                     ELSE Response(a.status, a.body)
                [] OTHER -> SysExit

send(llm_server_type, attempts) == send_loop(llm_server_type, attempts, 0)

\* "choices" in response.json()
HasChoices(body) == body.b \in {"empty_choices", "content"}

(***************************************************************************)
(* llm.llm_request: None when send gave None, the body is no JSON or has   *)
(* no choices; the response otherwise.                                     *)
(***************************************************************************)
llm_request(llm_server_type, attempts) ==
    LET response == send(llm_server_type, attempts) IN
    IF response.kind # "response" THEN response
    ELSE IF response.body = NotJsonBody THEN NoResponse
    ELSE IF ~HasChoices(response.body) THEN NoResponse
    ELSE response

\* every result send and llm_request can give, per server type
SendResults == [st \in ServerTypes |-> {send(st, a) : a \in AttemptSeqs}]

LlmResults == [st \in ServerTypes |-> {llm_request(st, a) : a \in AttemptSeqs}]

\* the results whose content, when there is one, is among the given contents
WithContents(results, contents) ==
    {r \in results :
        (r.kind = "response" /\ r.body.b = "content") => r.body.content \in contents}

\* the exchange failed at the transport level: no response, a status other
\* than 200, or a body that is not the choices envelope
TransportFailure(result) ==
    \/ result.kind # "response"
    \/ result.status # 200
    \/ result.body.b # "content"

(***************************************************************************)
(* think/memory.py: the bounded histories.  An entry carries the ordinal   *)
(* of its insertion (for a thought, its timestamp).                        *)
(***************************************************************************)
\* history[-n:]
LastN(history, n) ==
    IF Len(history) > n THEN SubSeq(history, Len(history) - n + 1, Len(history))
    ELSE history

\* history[:n]
FirstN(history, n) ==
    IF Len(history) > n THEN SubSeq(history, 1, n) ELSE history

\* add_to_response_history keeping the oldest entries instead of the newest
add_to_response_history_keep_oldest(response_history, entry) ==
    LET history == Append(response_history, entry) IN
    IF Len(history) > RESPONSE_HISTORY_CAP
    THEN FirstN(history, RESPONSE_HISTORY_CAP)
    ELSE history

\* what add_to_response_history saves, given what it loaded
add_to_response_history(response_history, entry) ==
    LET history == Append(response_history, entry) IN
    IF Len(history) > RESPONSE_HISTORY_CAP
    THEN LastN(history, RESPONSE_HISTORY_CAP)
    ELSE history

\* a string built as prefix + v
Str(prefix, v) == [prefix |-> prefix, v |-> v]

\* what save_thought_history writes to the file
save_thought_history(history) ==
    IF Len(history) > THOUGHT_HISTORY_CAP
    THEN LastN(history, THOUGHT_HISTORY_CAP)
    ELSE history

\* memory.summarize_text on the result of llm.send: the summary, or the
\* exception response.json()["choices"][0]["message"]["content"] raises
summarize_text(sent) ==
    IF sent.kind = "exit" THEN [kind |-> "exit"]
    ELSE IF sent.kind = "none" THEN [kind |-> "raise"]
    ELSE IF sent.body.b # "content" THEN [kind |-> "raise"]
    ELSE [kind |-> "summary", summary |-> sent.body.content]

\* the Thought that save_thought builds (its JSON text); the context of a
\* think call holds no assistant message, so action stays None
Thought(thought, summary, timestamp) ==
    [thought |-> thought, summary |-> summary, action |-> PyNone,
     timestamp |-> timestamp]

\* what save_thought saves, given the loaded history and the new thought
save_thought(history, new_thought) ==
    LET trimmed == IF Len(history) > THOUGHT_HISTORY_CAP
                   THEN LastN(history, THOUGHT_HISTORY_CAP)
                   ELSE history
    IN  save_thought_history(Append(trimmed, new_thought))

ResponseEntry(question, response, stamp) ==
    [question |-> question, response |-> response, stamp |-> stamp]

(***************************************************************************)
(* action_decisions.decide, one attempt: from the result of llm_request    *)
(* and the failure counter to how the attempt ends.  outcome is            *)
(*   "exit"       send ended the process                                   *)
(*   "transport"  return None at lines 62-69                               *)
(*   "exception"  return None from the except branch                       *)
(*   "no_json"    return None: the repair extracted nothing                *)
(*   "valid"      return assistant_message                                 *)
(*   "give_up"    return None: fail_counter reached MAX_FAILURES           *)
(*   "retry"      return decide(thoughts)                                  *)
(***************************************************************************)
Attempt(o, value, fc) == [outcome |-> o, ret |-> value, fail_counter |-> fc]

\* lines 81-91 without the increment of fail_counter
decide_validated_no_count(assistant_message, fc) ==
    IF validate_json(assistant_message)
    THEN Attempt("valid", assistant_message, fc)
    ELSE IF fc >= MAX_FAILURES
         THEN Attempt("give_up", PyNone, fc)
         ELSE Attempt("retry", PyNone, fc)

\* lines 81-91: the second validation and what follows it
decide_validated(assistant_message, fc) ==
    IF validate_json(assistant_message)
    THEN Attempt("valid", assistant_message, fc)
    ELSE IF fc + 1 >= MAX_FAILURES
         THEN Attempt("give_up", PyNone, fc + 1)
         ELSE Attempt("retry", PyNone, fc + 1)

\* lines 74-91: the first validation, the repair and the rest
decide_message(assistant_message, fc) ==
    IF ~validate_json(assistant_message)
    THEN IF assistant_message = PyNone
         THEN Attempt("exception", PyNone, fc)   \* None has no find()
         ELSE LET extracted == extract_json_from_response(assistant_message) IN
              IF extracted = PyNone
              THEN Attempt("no_json", PyNone, fc)
              ELSE decide_validated(extracted, fc)
    ELSE decide_validated(assistant_message, fc)

\* lines 59-100
decide_attempt(response, fc) ==
    IF response.kind = "exit" THEN Attempt("exit", PyNone, fc)
    ELSE IF response.kind = "none" \/ response.status # 200
    THEN Attempt("transport", PyNone, fc)
    ELSE IF ~HasChoices(response.body) THEN Attempt("transport", PyNone, fc)
    ELSE IF response.body.b = "empty_choices"
    THEN Attempt("exception", PyNone, fc)        \* choices[0] raises
    ELSE decide_message(response.body.content, fc)

(***************************************************************************)
(* action_execute.web_search.  The search capability (DDGS().text) answers *)
(* the calls made to it one after the other with the outcomes of           *)
(* capability:                                                             *)
(*   "results"    a non-empty list of results with title and href          *)
(*   "malformed"  a non-empty list, a result lacks a key                   *)
(*   "empty"      no result                                                *)
(*   "raise"      an exception                                             *)
(*   "interrupt"  KeyboardInterrupt                                        *)
(* The result says how the call ended, the payload returned and the calls  *)
(* made to the capability.                                                 *)
(***************************************************************************)
SearchResult(kind, value, calls) == [kind |-> kind, value |-> value, calls |-> calls]

\* json.dumps(search_results) with no result
EmptyPayload == "[]"

\* the digest of line 159
NoResultsPayload == "No results"

\* the digest of line 183
ErrorPayload == "Error"

\* the digest of lines 170-176
ResultsPayload == "## Search results"

\* lines 133-183 from the attempt numbered attempts + 1
RECURSIVE search_loop_empty_payload(_, _, _)
search_loop_empty_payload(query, capability, attempts) ==
    IF attempts >= DUCKDUCKGO_MAX_ATTEMPTS
    THEN SearchResult("return", EmptyPayload, attempts)
    ELSE IF query = "" THEN SearchResult("return", EmptyPayload, attempts)
    ELSE LET answer == capability[attempts + 1] IN
         CASE answer = "results" -> SearchResult("return", ResultsPayload, attempts + 1)
           [] answer = "malformed" -> SearchResult("return", ErrorPayload, attempts + 1)
           [] answer = "interrupt" ->
                SearchResult("raise", "KeyboardInterrupt", attempts + 1)
           [] OTHER -> search_loop_empty_payload(query, capability, attempts + 1)

\* lines 133-183 from the attempt numbered attempts + 1: every attempt that
\* goes on to the next one has added one to attempts
RECURSIVE search_loop(_, _, _)
search_loop(query, capability, attempts) ==
    IF attempts >= DUCKDUCKGO_MAX_ATTEMPTS
    THEN SearchResult("return", NoResultsPayload, attempts)
    ELSE IF query = "" THEN SearchResult("return", EmptyPayload, attempts)
    ELSE LET answer == capability[attempts + 1] IN
         CASE answer = "results" -> SearchResult("return", ResultsPayload, attempts + 1)
           [] answer = "malformed" -> SearchResult("return", ErrorPayload, attempts + 1)
           [] answer = "interrupt" ->
                SearchResult("raise", "KeyboardInterrupt", attempts + 1)
           [] OTHER -> search_loop(query, capability, attempts + 1)

web_search(query, capability) == search_loop(query, capability, 0)

CapabilityAnswers == {"results", "malformed", "empty", "raise", "interrupt"}

(***************************************************************************)
(* action_execute.take_action, from the message and what the outside world *)
(* does (env.ask: the user's answer or "raise"; env.search: the answers of  *)
(* the search capability).  The result says how the call ended                *)
(*   "raised"      an exception left take_action                           *)
(*   "caught"      the outer except branch logged an error                 *)
(*   "unknown"     the name is no implemented action                       *)
(*   "done"        the dispatch ran to "Added to assistant content."       *)
(*   "exit"        memory.get_response_history summarized the history and  *)
(*                 llm.send ended the process (env.history)                *)
(*   "interrupted" KeyboardInterrupt left web_search and is raised again   *)
(* the response-history entry written (or None) and the lines added to     *)
(* the conversation history by TelegramUtils.                              *)
(***************************************************************************)
Effect(how, question, response, convo) ==
    [how |-> how, question |-> question, response |-> response, convo |-> convo]

\* every outcome without an entry writing one that records the outcome
NoEntry_recorded(how) == Effect(how, Str("", "error"), Str("", how), <<>>)

NoEntry(how) == Effect(how, PyNone, PyNone, <<>>)

\* content["message"] is there and is a str
HasMessage(content) ==
    /\ content.t = "dict"
    /\ HasKey(content.items, "message")
    /\ DictGet(content.items, "message").t = "str"

HasQuery(content) ==
    /\ content.t = "dict"
    /\ HasKey(content.items, "query")
    /\ DictGet(content.items, "query").t = "str"

\* lines 36-104: the dispatch on action
dispatch(action, content, env) ==
    IF action = JStr("ask_user")
    THEN IF ~HasMessage(content) \/ env.ask = "raise" THEN NoEntry("caught")
         ELSE LET message == DictGet(content.items, "message").s IN
              Effect("done", Str("", message), Str("The user's answer: ", env.ask),
                     <<Str("AI: ", message), Str("User: ", env.ask)>>
                     \o (IF env.ask = "/debug"
                         THEN <<Str("Sent: ", "assistant_message")>> ELSE <<>>))
    ELSE IF action \in {JStr("send_message"), JStr("send_log")}
    THEN IF ~HasMessage(content) THEN NoEntry("caught")
         ELSE LET message == DictGet(content.items, "message").s IN
              Effect("done", Str("", message), Str("", "No response."),
                     <<Str("Sent: ", message)>>)
    ELSE IF action = JStr("web_search")
    THEN IF ~HasQuery(content) THEN NoEntry("done")   \* the inner except
         ELSE LET query == DictGet(content.items, "query").s
                  query_result == web_search(query, env.search)
              IN  IF query_result.kind = "raise" THEN NoEntry("interrupted")
                  ELSE Effect("done", Str("called web_search: ", query),
                              Str("", query_result.value), <<>>)
    ELSE IF action = JStr("conversation_history")
    THEN IF env.history = "exit" THEN NoEntry("exit")   \* send ends the process
         ELSE Effect("done", Str("", "called conversation_history"),
                     Str("Previous conversation: ", "response_history"), <<>>)
    ELSE NoEntry("unknown")

\* lines 21-117
take_action(assistant_message, configured, env) ==
    IF ~configured THEN NoEntry("raised")         \* TelegramUtils() raises
    ELSE IF assistant_message.t # "text" THEN NoEntry("caught")  \* decode wants a str
    ELSE LET command == json_loads(assistant_message.toks) IN
         IF ~command.ok THEN NoEntry("caught")
         ELSE IF ~HasEnvelopeKeys(command.val) THEN NoEntry("caught")
         ELSE LET c == DictGet(command.val.items, "command") IN
              dispatch(DictGet(c.items, "name"), DictGet(c.items, "args"), env)

(***************************************************************************)
(* The state.                                                              *)
(***************************************************************************)
VARIABLES
    pc,                   \* where the process is
    server_type,          \* LLM_SERVER_TYPE
    telegram_configured,  \* TELEGRAM_API_KEY and TELEGRAM_CHAT_ID are set
    thought_history,      \* thought_history.json
    response_history,     \* response_history.json
    conversation_history, \* conversation_history.json
    memories,             \* memories.json
    fail_counter,         \* action_decisions.fail_counter
    execute_fail_counter, \* action_execute.fail_counter
    thinking,             \* run_think: the thought text
    decision,             \* run_think: what decide returned
    evaluated_decision,   \* run_think: what evaluate_decision returned
    iteration,            \* run_think calls started by main_loop
    requests,             \* Gateway requests of the current decide call
    start_counter,        \* fail_counter when the current decide call began
    outcome,              \* how the last decide attempt ended
    only_unparsable,      \* every answer of the current decide call was unparsable text
    last_step,            \* the operation that made the last Gateway exchange
    gateway_failed,       \* that exchange failed at the transport level
    raised,               \* the exception the last step ended with, if any
    responses_added,      \* entries ever added to the response history
    thoughts_saved,       \* thoughts ever saved
    arg,                  \* the argument of the function under study
    ret                   \* its result

vars ==
    <<pc, server_type, telegram_configured, thought_history, response_history,
      conversation_history, memories, fail_counter, execute_fail_counter,
      thinking, decision, evaluated_decision, iteration, requests, start_counter,
      outcome, only_unparsable, last_step, gateway_failed, raised, responses_added,
      thoughts_saved, arg, ret>>

memory_vars == <<thought_history, response_history, conversation_history, memories>>

config_vars == <<server_type, telegram_configured>>

loop_vars == <<thinking, decision, evaluated_decision, iteration>>

decide_vars == <<fail_counter, requests, start_counter, outcome, only_unparsable>>

gateway_vars == <<last_step, gateway_failed, raised>>

count_vars == <<responses_added, thoughts_saved>>

fn_vars == <<arg, ret>>

\* the state once main.initialize has run forget_everything
InitCommon ==
    /\ server_type \in ServerTypes
    /\ telegram_configured = TRUE
    /\ thought_history = <<>>
    /\ response_history = <<>>
    /\ conversation_history = <<>>
    /\ memories = <<>>
    /\ fail_counter = 0
    /\ execute_fail_counter = 0
    /\ thinking = PyNone
    /\ decision = PyNone
    /\ evaluated_decision = PyNone
    /\ iteration = 0
    /\ requests = 0
    /\ start_counter = 0
    /\ outcome = "none"
    /\ only_unparsable = TRUE
    /\ last_step = "init"
    /\ gateway_failed = FALSE
    /\ raised = "none"
    /\ responses_added = 0
    /\ thoughts_saved = 0

NoFunction == arg = PyNone /\ ret = PyNone

(***************************************************************************)
(* The Memory Store on its own: add_to_response_history and save_thought   *)
(* called in any order on logs that start empty.                           *)
(***************************************************************************)
\* the summaries the Gateway gives in the model
SummaryContents == {ProseText}

SummaryResults ==
    [st \in ServerTypes |-> WithContents(SendResults[st], SummaryContents)]

InitMemory == InitCommon /\ NoFunction /\ pc = "memory"

AddToResponseHistory ==
    /\ pc = "memory"
    /\ responses_added < MaxResponseInserts
    /\ response_history' =
          add_to_response_history(response_history,
              ResponseEntry(Str("", "hi"), Str("", "No response."),
                            responses_added + 1))
    /\ responses_added' = responses_added + 1
    /\ ret' = [kind |-> "return"]
    /\ UNCHANGED <<pc, config_vars, thought_history, conversation_history, memories,
                   loop_vars, decide_vars, execute_fail_counter, gateway_vars,
                   thoughts_saved, arg>>

SaveThought ==
    /\ pc = "memory"
    /\ thoughts_saved < MaxThoughtInserts
    /\ \E sent \in SummaryResults[server_type] :
          LET s == summarize_text(sent) IN
          IF s.kind = "summary"
          THEN /\ thought_history' =
                    save_thought(thought_history,
                        Thought(ProseText, s.summary, thoughts_saved + 1))
               /\ thoughts_saved' = thoughts_saved + 1
               /\ ret' = [kind |-> "return"]
               /\ pc' = pc
          ELSE /\ ret' = s
               /\ pc' = IF s.kind = "exit" THEN "exited" ELSE pc
               /\ UNCHANGED <<thought_history, thoughts_saved>>
    /\ UNCHANGED <<config_vars, response_history, conversation_history, memories,
                   loop_vars, decide_vars, execute_fail_counter, gateway_vars,
                   responses_added, arg>>

NextMemory == AddToResponseHistory \/ SaveThought

SpecMemory == InitMemory /\ [][NextMemory]_vars

(***************************************************************************)
(* decide on its own: calls of decide one after another, each attempt a    *)
(* step.                                                                   *)
(***************************************************************************)
\* the ghost count of requests stops counting past this
RequestsCeiling == MAX_FAILURES + 1

Bump(n) == IF n < RequestsCeiling THEN n + 1 ELSE n

IsUnparsableAnswer(response) ==
    /\ response.kind = "response"
    /\ response.status = 200
    /\ response.body.b = "content"
    /\ response.body.content \in UnparsableTexts

\* decide(thoughts) is entered
EnterDecide ==
    /\ requests' = 0
    /\ start_counter' = fail_counter
    /\ outcome' = "none"
    /\ only_unparsable' = TRUE
    /\ decision' = PyNone

\* one attempt of decide with the Gateway answering response; the call
\* goes on to pc = after when it returns
DecideWith(response, after) ==
    LET d == decide_attempt(response, fail_counter) IN
    /\ pc = "decide"
    /\ fail_counter' = d.fail_counter
    /\ requests' = Bump(requests)
    /\ outcome' = d.outcome
    /\ only_unparsable' = (only_unparsable /\ IsUnparsableAnswer(response))
    /\ last_step' = "decide"
    /\ gateway_failed' = TransportFailure(response)
    /\ raised' = IF d.outcome = "exit" THEN "SystemExit" ELSE "none"
    /\ decision' = d.ret
    /\ pc' = CASE d.outcome = "retry" -> "decide"
              [] d.outcome = "exit" -> "exited"
              [] OTHER -> after
    /\ UNCHANGED <<config_vars, memory_vars, execute_fail_counter, thinking,
                   evaluated_decision, iteration, start_counter, count_vars, fn_vars>>

\* the answers to the decide request in the model
DecisionContents ==
    {SendMessageText, WrappedText, NoCommandText, NestedArrayText, BadKeyText,
     ArrayValueText, WrappedNullText, ArrayText, PyNone}
    \cup UnparsableTexts

DecideResults ==
    [st \in ServerTypes |-> WithContents(LlmResults[st], DecisionContents)]

\* with lmstudio llm_request gives every result it gives with the other servers
InitDecide == InitCommon /\ NoFunction /\ pc = "idle" /\ server_type = "lmstudio"

CallDecide ==
    /\ pc \in {"idle", "returned"}
    /\ fail_counter < MAX_FAILURES + MaxOverrun
    /\ pc' = "decide"
    /\ EnterDecide
    /\ UNCHANGED <<config_vars, memory_vars, fail_counter, execute_fail_counter,
                   thinking, evaluated_decision, iteration, gateway_vars,
                   count_vars, fn_vars>>

DecideAttempt ==
    \E response \in DecideResults[server_type] : DecideWith(response, "returned")

NextDecide == CallDecide \/ DecideAttempt

\* a started attempt ends: every Gateway call returns
SpecDecide == InitDecide /\ [][NextDecide]_vars /\ WF_vars(DecideAttempt)

\* the stamps of a stored history are the last Len(history) of 1..n in order
MostRecent(history, n, cap) ==
    /\ Len(history) = IF n > cap THEN cap ELSE n
    /\ \A i \in 1..Len(history) : history[i].stamp = n - Len(history) + i

ThoughtStamps == [i \in 1..Len(thought_history) |-> [stamp |-> thought_history[i].timestamp]]

\* C1: from empty logs, after any sequence of add_to_response_history and
\* save_thought calls the stored response history holds at most 20 entries and
\* the stored thought history at most 10, each being exactly the most recent
\* insertions in their original order.
C1_BoundedFifo ==
    /\ Len(response_history) <= 20
    /\ Len(thought_history) <= 10
    /\ MostRecent(response_history, responses_added, 20)
    /\ MostRecent(ThoughtStamps, thoughts_saved, 10)

C1_Witness ==
    /\ responses_added > 20
    /\ thoughts_saved > 10
    /\ response_history[1].stamp = responses_added - 19

(***************************************************************************)
(* The main loop: main_loop calls run_think again and again; run_think is  *)
(* think, decide, evaluate_decision, take_action.                          *)
(***************************************************************************)
\* the thoughts, and the evaluated decisions, the Gateway gives in the model
ThoughtContents == {ProseText, PyNone}

ThinkResults ==
    [st \in ServerTypes |-> WithContents(LlmResults[st], ThoughtContents)]

\* the answers to the evaluate_decision request in the model
EvaluateContents ==
    {SendMessageText, AskUserText, WebSearchText, HistoryText, UnknownCommandText,
     ProseText, PyNone}

EvaluateResults ==
    [st \in ServerTypes |-> WithContents(LlmResults[st], EvaluateContents)]

AskOutcomes == {"yes", "/debug", "raise"}

\* the search capability answers every attempt alike, or fails once and
\* then finds results
SearchCapabilities ==
    {[i \in 1..MaxSearchCalls |-> a] : a \in {"results", "malformed", "empty", "raise"}}
    \cup {[i \in 1..MaxSearchCalls |-> IF i = 1 THEN "raise" ELSE "results"]}

\* memory.get_response_history in the conversation_history command: it
\* returns, or send ends the process while a chunk is summarized
HistoryOutcomes == {"returned", "exit"}

DefaultEnv ==
    [ask |-> "yes", search |-> [i \in 1..MaxSearchCalls |-> "results"],
     history |-> "returned"]

\* a command meets one of the three; the others stay as in DefaultEnv
Environments ==
    {[DefaultEnv EXCEPT !.ask = a] : a \in AskOutcomes}
    \cup {[DefaultEnv EXCEPT !.search = s] : s \in SearchCapabilities}
    \cup {[DefaultEnv EXCEPT !.history = h] : h \in HistoryOutcomes}

\* main_loop with every exception ending the process
main_loop_fatal(exception) == "exited"

\* main.main_loop, lines 93-110: where the loop goes when run_think ends
\* with the exception; SystemExit passes through every handler
main_loop(exception) ==
    IF exception = "SystemExit" THEN "exited" ELSE "think"

\* what think does with the result of llm_request and, when it gets that
\* far, with the result of the summary request of save_thought
think(response, sent) ==
    IF response.kind = "exit" THEN [kind |-> "exit"]
    ELSE IF response.kind = "none" THEN [kind |-> "raise"]    \* None.status_code
    ELSE IF response.status # 200 THEN [kind |-> "raise"]     \* raise Exception
    ELSE IF response.body.b # "content" THEN [kind |-> "raise"]
    ELSE LET s == summarize_text(sent) IN
         IF s.kind # "summary" THEN s
         ELSE [kind |-> "thoughts", thoughts |-> response.body.content,
               summary |-> s.summary]

InitLoop == InitCommon /\ NoFunction /\ pc = "think"

\* the first step of run_think: think(), up to the call of decide
Think ==
    /\ pc = "think"
    /\ iteration < MaxIterations
    /\ iteration' = iteration + 1
    /\ last_step' = "think"
    /\ evaluated_decision' = PyNone
    /\ EnterDecide
    /\ \E response \in ThinkResults[server_type], sent \in SummaryResults[server_type] :
          LET t == think(response, sent) IN
          /\ gateway_failed' =
                (TransportFailure(response)
                 \/ (t.kind # "thoughts" /\ TransportFailure(sent)))
          /\ IF t.kind = "thoughts"
             THEN /\ thought_history' =
                       save_thought(thought_history,
                           Thought(t.thoughts, t.summary, thoughts_saved + 1))
                  /\ thoughts_saved' = thoughts_saved + 1
                  /\ thinking' = t.thoughts
                  \* decide: "Thoughts: \n" + thoughts raises when thoughts is None
                  /\ raised' = IF t.thoughts = PyNone THEN "Exception" ELSE "none"
                  /\ pc' = IF t.thoughts = PyNone THEN main_loop("Exception")
                           ELSE "decide"
             ELSE /\ UNCHANGED <<thought_history, thoughts_saved>>
                  /\ thinking' = PyNone
                  /\ raised' = IF t.kind = "exit" THEN "SystemExit" ELSE "Exception"
                  /\ pc' = main_loop(raised')
    /\ UNCHANGED <<config_vars, response_history, conversation_history, memories,
                   fail_counter, execute_fail_counter, responses_added, fn_vars>>

\* the answers to the decide request in the loop: a command, a command in
\* prose, a mapping that fails validation, prose, and null
LoopDecisionContents == {SendMessageText, WrappedText, BadKeyText, ProseText, PyNone}

LoopDecideResults ==
    [st \in ServerTypes |-> WithContents(LlmResults[st], LoopDecisionContents)]

\* an attempt of decide in the loop
Decide ==
    \E response \in LoopDecideResults[server_type] :
        /\ \/ fail_counter < MaxLoopFailures
           \/ decide_attempt(response, fail_counter).fail_counter = fail_counter
        /\ DecideWith(response, "evaluate")

\* evaluate_decision(thinking, decision)
Evaluate ==
    /\ pc = "evaluate"
    /\ last_step' = "evaluate"
    /\ \E response \in EvaluateResults[server_type] :
          /\ gateway_failed' = TransportFailure(response)
          /\ IF response.kind = "response" /\ response.body.b = "content"
             THEN /\ evaluated_decision' = response.body.content
                  /\ raised' = "none"
                  /\ pc' = "take_action"
             ELSE /\ evaluated_decision' = PyNone
                  /\ raised' = IF response.kind = "exit" THEN "SystemExit"
                               ELSE "Exception"
                  /\ pc' = main_loop(raised')
    /\ UNCHANGED <<config_vars, memory_vars, decide_vars, execute_fail_counter,
                   thinking, decision, iteration, count_vars, fn_vars>>

\* take_action(evaluated_decision), and back to main_loop
TakeAction ==
    /\ pc = "take_action"
    /\ \E env \in Environments :
          LET e == take_action(evaluated_decision, telegram_configured, env) IN
          \* a history is summarized only when it is long, so not when empty
          /\ env.history = "exit" => response_history # <<>>
          /\ conversation_history' = conversation_history \o e.convo
          /\ IF e.question # PyNone
             THEN /\ response_history' =
                       add_to_response_history(response_history,
                           ResponseEntry(e.question, e.response, responses_added + 1))
                  /\ responses_added' = responses_added + 1
             ELSE UNCHANGED <<response_history, responses_added>>
          /\ execute_fail_counter' =
                IF e.how = "done" THEN 0 ELSE execute_fail_counter
          /\ raised' = CASE e.how = "raised" -> "Exception"
                          [] e.how = "exit" -> "SystemExit"
                          [] OTHER -> "none"
          /\ pc' = IF raised' = "none" THEN "think" ELSE main_loop(raised')
    \* run_think returns: its locals are gone
    /\ thinking' = PyNone
    /\ decision' = PyNone
    /\ evaluated_decision' = PyNone
    /\ last_step' = "take_action"
    /\ gateway_failed' = FALSE
    /\ UNCHANGED <<config_vars, thought_history, memories, decide_vars, iteration,
                   thoughts_saved, fn_vars>>

Next == Think \/ Decide \/ Evaluate \/ TakeAction

Spec == InitLoop /\ [][Next]_vars

(***************************************************************************)
(* validate_json on its own: one call on a value drawn from the JSON       *)
(* values up to MaxDepth levels deep, given as dicts and as texts.         *)
(***************************************************************************)
Scalars == {JNull, JBool(TRUE), JInt("1"), JFloat("1.5"), JStr("hi")}

Keys == {"name", "a b"}

RECURSIVE Values(_)
Values(depth) ==
    IF depth = 0 THEN Scalars \cup {JList(<<>>), JDict(<<>>)}
    ELSE Values(0)
         \cup {JList(<<v>>) : v \in Values(depth - 1)}
         \cup {JDict(<<Item(k, v)>>) : k \in Keys, v \in Values(depth - 1)}

TwoItemDicts ==
    {JDict(<<Item("command", v), Item(k, w)>>) :
        v \in Values(0), k \in Keys, w \in Values(0)}

ValidateValues == Values(MaxDepth) \cup TwoItemDicts

ValidateInputs ==
    {PyNone}
    \cup {v \in ValidateValues : v.t = "dict"}
    \cup {PyText(dumps(v)) : v \in ValidateValues}
    \cup (GatewayContents \ {PyNone})

InitValidate ==
    /\ InitCommon
    /\ server_type = "lmstudio"
    /\ pc = "call"
    /\ arg \in ValidateInputs
    /\ ret = PyNone

ValidateJson ==
    /\ pc = "call"
    /\ ret' = [kind |-> "return", value |-> validate_json(arg)]
    /\ pc' = "done"
    /\ UNCHANGED <<config_vars, memory_vars, loop_vars, decide_vars,
                   execute_fail_counter, gateway_vars, count_vars, arg>>

NextValidate == ValidateJson

SpecValidate == InitValidate /\ [][NextValidate]_vars

(***************************************************************************)
(* Properties of decide, under SpecDecide.                                 *)
(***************************************************************************)
\* the most Gateway requests a decide call entered with the counter at
\* start can make
RequestBound(start) ==
    IF start < MAX_FAILURES THEN MAX_FAILURES - start ELSE 1

\* C3: every call to decide returns after finitely many Gateway requests
\* whatever the Gateway answers: a call makes no more requests than the
\* failure budget allows, and a call that has begun ends.
C3_DecideTerminates ==
    /\ [](requests <= RequestBound(start_counter))
    /\ ((pc = "decide") ~> (pc # "decide"))

C3_Witness ==
    /\ pc = "returned"
    /\ start_counter = 0
    /\ requests = MAX_FAILURES
    /\ outcome = "give_up"

\* C4: if the Gateway always returns unparsable text, a decide call started
\* with the failure counter at 0 issues exactly MAX_FAILURES requests and
\* then gives up.
C4_UnparsableRetriedToTheBound ==
    (pc = "returned" /\ start_counter = 0 /\ only_unparsable)
        => (requests = MAX_FAILURES /\ outcome = "give_up")

\* C5: whenever decide returns a validated command the decision failure
\* counter is zero on return.
C5_CounterZeroOnSuccess ==
    (pc = "returned" /\ outcome = "valid") => fail_counter = 0

\* what decide returns on an ordinary transport error
TransportErrorReturn == decide_attempt(NoResponse, 0).ret

\* C6: the give-up outcome of decide is distinguishable by its caller from
\* the outcome on an ordinary transport error: decide does not return the
\* same value for both.
C6_GiveUpDistinct ==
    (pc = "returned" /\ outcome = "give_up") => decision # TransportErrorReturn

\* C7: a Gateway transport failure during decide never terminates the
\* process: the call returns no decision without retrying and leaves the
\* failure counter unchanged.
C7_TransportFailureIsLocal ==
    [][(pc = "decide" /\ gateway_failed')
        => (/\ pc' \notin {"exited", "decide"}
            /\ decision' = PyNone
            /\ fail_counter' = fail_counter)]_vars

\* the mapping a decision stands for: the dict, or what the text decodes to
MappingOf(value) ==
    IF value.t = "dict" THEN value
    ELSE IF value.t = "text" /\ json_loads(value.toks).ok
    THEN json_loads(value.toks).val
    ELSE PyNone

RECURSIVE DeepOk(_)
\* at every nesting level: identifier keys, and integer, string, boolean or
\* object values
DeepOk(m) ==
    /\ m.t = "dict"
    /\ \A i \in 1..Len(m.items) :
          /\ isidentifier(m.items[i].key)
          /\ m.items[i].val.t \in {"int", "str", "bool", "dict"}
          /\ (m.items[i].val.t = "dict" => DeepOk(m.items[i].val))

RECURSIVE ContainsArray(_)
ContainsArray(v) ==
    \/ v.t = "list"
    \/ /\ v.t = "dict"
       /\ \E i \in 1..Len(v.items) : ContainsArray(v.items[i].val)

\* C9 as claimed: validate_json accepts a value only if at every nesting
\* level every key is identifier-like and every value is an integer, string,
\* boolean or object; a mapping with an array at any depth is rejected.
C9_AcceptsOnlyDeepValid ==
    (pc = "done" /\ ret.value)
        => (DeepOk(MappingOf(arg)) /\ ~ContainsArray(MappingOf(arg)))

\* C9 as amended: validate_json accepts a value only if it is, or decodes to,
\* a mapping whose top-level keys are identifier-like and whose top-level
\* values are each an integer, string, boolean or object; what lies inside a
\* nested object is not inspected.
C9_AcceptsOnlyTopLevelValid ==
    (pc = "done" /\ ret.value)
        => LET m == MappingOf(arg) IN
           /\ m.t = "dict"
           /\ \A i \in 1..Len(m.items) :
                 /\ m.items[i].key \notin NonIdentifiers
                 /\ m.items[i].val.t \in {"int", "str", "bool", "dict"}

\* an accepted mapping that holds an array and a non-identifier key below
\* the top level
C9_Witness ==
    /\ pc = "done"
    /\ ret.value
    /\ arg = JDict(<<Item("name", JDict(<<Item("a b", JList(<<>>))>>))>>)

\* {command: {name, args}}
HasEnvelopeShape(m) ==
    /\ m.t = "dict"
    /\ HasKey(m.items, "command")
    /\ DictGet(m.items, "command").t = "dict"
    /\ HasKey(DictGet(m.items, "command").items, "name")
    /\ HasKey(DictGet(m.items, "command").items, "args")

\* C10: every value decide returns as a decision has the command-envelope
\* structure {command: {name, args}}.
C10_DecisionIsEnvelope ==
    (pc = "returned" /\ outcome = "valid") => HasEnvelopeShape(MappingOf(decision))

(***************************************************************************)
(* The loop's claims.                                                      *)
(***************************************************************************)
\* C2: take_action is invoked only with a value that passed validate_json in
\* this iteration's decide call: when the loop is about to call take_action,
\* decide ended with a validated value and that value is the argument.
C2_OnlyValidatedReachesDispatch ==
    pc = "take_action" => (outcome = "valid" /\ evaluated_decision = decision)

\* C8, as stated: once the Gateway exchange of think has failed the process
\* is over, no further iteration can start.
C8_ThinkFailureIsFatal ==
    (last_step = "think" /\ gateway_failed) => pc = "exited"

\* C8, amended: a failed Gateway exchange in think saves no thought and ends
\* the iteration with an exception, decide is not reached; the process is
\* over only when send ended it (SystemExit), otherwise main_loop is back at
\* the start of the next iteration.
C8_ThinkFailureEndsIteration ==
    [][(pc = "think" /\ gateway_failed')
         => /\ thought_history' = thought_history
            /\ raised' \in {"Exception", "SystemExit"}
            /\ pc' = IF raised' = "SystemExit" THEN "exited" ELSE "think"]_vars

C8_Witness ==
    /\ pc = "think"
    /\ last_step = "think"
    /\ gateway_failed
    /\ raised = "Exception"
    /\ iteration = 1

(***************************************************************************)
(* decide on an envelope wrapped in prose: one decide call whose Gateway   *)
(* answer is prose, a command envelope, prose.                             *)
(***************************************************************************)
BraceFreeProse ==
    {<<>>, <<Word("sure:")>>, <<Word("here"), Word("is"), Word("my"), Word("answer:")>>,
     <<Word("thanks")>>}

\* prose that holds a brace of its own
BraceProse == {<<Word("use"), LBrace>>, <<RBrace, Word("bye")>>}

Envelopes ==
    {Envelope("send_message", MessageArgs), Envelope("ask_user", MessageArgs),
     Envelope("web_search", QueryArgs), Envelope("conversation_history", JNull),
     Envelope("fly", JDict(<<>>))}

Wrapped(pre, envelope, post) == PyText(pre \o dumps(envelope) \o post)

RepairTexts ==
    {Wrapped(pre, e, post) :
        pre \in BraceFreeProse \cup BraceProse, e \in Envelopes,
        post \in BraceFreeProse \cup BraceProse}

InitRepair ==
    /\ InitCommon
    /\ pc = "call"
    /\ arg \in RepairTexts
    /\ ret = PyNone

\* earlier decide calls of the process have counted their failures
CountFailure ==
    /\ pc = "call"
    /\ requests = 0
    /\ fail_counter < MaxStartFailures
    /\ fail_counter' = fail_counter + 1
    /\ start_counter' = fail_counter + 1
    /\ UNCHANGED <<pc, config_vars, memory_vars, execute_fail_counter, loop_vars,
                   requests, outcome, only_unparsable, gateway_vars, count_vars, fn_vars>>

\* decide, the Gateway answering 200 with the text arg
DecideRepair ==
    /\ pc = "call"
    /\ LET d == decide_attempt(Response(200, ContentBody(arg)), fail_counter) IN
          /\ fail_counter' = d.fail_counter
          /\ outcome' = d.outcome
          /\ decision' = d.ret
          /\ ret' = [kind |-> "return", value |-> d.ret]
          /\ pc' = IF d.outcome = "retry" THEN "call" ELSE "done"
    /\ requests' = Bump(requests)
    /\ UNCHANGED <<config_vars, memory_vars, execute_fail_counter, thinking,
                   evaluated_decision, iteration, start_counter, only_unparsable,
                   gateway_vars, count_vars, arg>>

NextRepair == CountFailure \/ DecideRepair

SpecRepair == InitRepair /\ [][NextRepair]_vars

\* C11: when the Gateway text is a command envelope surrounded by brace-free
\* prose, decide returns that envelope as a validated decision after a single
\* request, and the failure counter is what it was when the call began.
C11_WrappedEnvelopeRecovered ==
    \A pre \in BraceFreeProse, post \in BraceFreeProse, e \in Envelopes :
        (pc = "done" /\ arg = Wrapped(pre, e, post))
            => /\ outcome = "valid"
               /\ MappingOf(decision) = e
               /\ requests = 1
               /\ fail_counter = start_counter

C11_Witness ==
    /\ pc = "done"
    /\ arg = WrappedText
    /\ decision = Envelope("send_message", MessageArgs)
    /\ start_counter = 1
    /\ fail_counter = 1

(***************************************************************************)
(* llm.build_context.  A Python string is a sequence of non-empty pieces,  *)
(* concatenation is \o.  A history given as a string is iterated character *)
(* by character, which is a list of one-character strings.                 *)
(***************************************************************************)
\* str(x) for the items of a history: a string, or None
str(x) == IF x.t = "str" THEN (IF x.s = "" THEN <<>> ELSE <<x.s>>) ELSE <<"None">>

\* bool(x)
Truthy(x) == x.t = "str" /\ x.s # ""

RECURSIVE JoinTruthy(_, _)
\* the loop "for convo in ...: if convo: context += str(convo)"
JoinTruthy(items, i) ==
    IF i > Len(items) THEN <<>>
    ELSE (IF Truthy(items[i]) THEN str(items[i]) ELSE <<>>) \o JoinTruthy(items, i + 1)

RECURSIVE JoinAll(_, _)
\* the loop "for mem in memories: context += mem"
JoinAll(items, i) ==
    IF i > Len(items) THEN <<>> ELSE str(items[i]) \o JoinAll(items, i + 1)

Message(role, content) == [role |-> role, content |-> content]

\* build_context appending its message whatever the context is
build_context_always_appends(history, convo_history, message_history, mems) ==
    LET c1 == IF convo_history # <<>>
              THEN <<"Context:\n">> \o JoinTruthy(convo_history, 1) ELSE <<>>
        c2 == IF message_history # <<>>
              THEN c1 \o <<"\nMessages:\n">> \o JoinTruthy(message_history, 1) ELSE c1
        context == IF mems # <<>>
                   THEN c2 \o <<"\nMemories:\n">> \o JoinAll(mems, 1) ELSE c2
    IN  Append(history, Message("user", context))

\* lines 283-310; mems is what memory.load_memories() gives
build_context(history, convo_history, message_history, mems) ==
    LET c1 == IF convo_history # <<>>
              THEN <<"Context:\n">> \o JoinTruthy(convo_history, 1) ELSE <<>>
        c2 == IF message_history # <<>>
              THEN c1 \o <<"\nMessages:\n">> \o JoinTruthy(message_history, 1) ELSE c1
        context == IF mems # <<>>
                   THEN c2 \o <<"\nMemories:\n">> \o JoinAll(mems, 1) ELSE c2
    IN  IF context # <<>> THEN Append(history, Message("user", context)) ELSE history

ContextItems == {PyNone, JStr(""), JStr("a"), JStr("b")}

RECURSIVE ItemLists(_)
ItemLists(n) ==
    IF n = 0 THEN {<<>>}
    ELSE ItemLists(n - 1)
         \cup {Append(l, x) : l \in {k \in ItemLists(n - 1) : Len(k) = n - 1},
                              x \in ContextItems}

ContextHistories ==
    {<<>>, <<Message("system", <<"prompt">>)>>,
     <<Message("system", <<"prompt">>), Message("user", <<"Context:\n", "old">>)>>}

ContextInputs ==
    [history : ContextHistories,
     conversation_history : ItemLists(MaxContextItems),
     message_history : ItemLists(1),
     memories : {<<>>, <<JStr("m")>>, <<JStr("m"), JStr("")>>}]

InitContext ==
    /\ InitCommon
    /\ pc = "call"
    /\ arg \in ContextInputs
    /\ ret = PyNone

BuildContext ==
    /\ pc = "call"
    /\ ret' = [kind |-> "return",
               value |-> build_context(arg.history, arg.conversation_history,
                                       arg.message_history, arg.memories)]
    /\ pc' = "done"
    /\ UNCHANGED <<config_vars, memory_vars, fail_counter, execute_fail_counter,
                   loop_vars, requests, start_counter, outcome, only_unparsable,
                   gateway_vars, count_vars, arg>>

NextContext == BuildContext

SpecContext == InitContext /\ [][NextContext]_vars

\* the text of the truthy items of a list, in order
ItemsText(items) ==
    LET kept == SelectSeq(items, LAMBDA x : x.t = "str" /\ x.s # "") IN
    [i \in 1..Len(kept) |-> kept[i].s]

\* header and items of an input, nothing when the input is empty
Block(header, items) == IF items = <<>> THEN <<>> ELSE <<header>> \o ItemsText(items)

\* C12: build_context returns the input message list followed by at most one
\* user message; that message is the concatenation, in the order Context,
\* Messages, Memories, of the header and items of each non-empty input; with
\* all three inputs empty nothing is appended; the messages already in the
\* list are kept as they were, in their order.
C12_OneTrailingContextMessage ==
    pc = "done" =>
        LET out == ret.value
            n == Len(arg.history)
            expected == Block("Context:\n", arg.conversation_history)
                        \o Block("\nMessages:\n", arg.message_history)
                        \o Block("\nMemories:\n", arg.memories)
            all_empty == /\ arg.conversation_history = <<>>
                         /\ arg.message_history = <<>>
                         /\ arg.memories = <<>>
        IN  /\ Len(out) >= n
            /\ SubSeq(out, 1, n) = arg.history
            /\ IF all_empty THEN out = arg.history
               ELSE out = Append(arg.history, Message("user", expected))

C12_Witness ==
    /\ pc = "done"
    /\ Len(arg.history) = 2
    /\ arg.conversation_history = <<JStr("a"), PyNone>>
    /\ arg.message_history = <<JStr("b")>>
    /\ arg.memories = <<JStr("m")>>
    /\ ret.value[3] = Message("user", <<"Context:\n", "a", "\nMessages:\n", "b",
                                        "\nMemories:\n", "m">>)

(***************************************************************************)
(* The history getters of think/memory.py.  A stored entry is known by its *)
(* stamp and the length of its serialized text; the serialized history is  *)
(* the entries' texts with one space between them (brackets and commas     *)
(* count in the lengths), so that text.split(" ") gives one word an entry. *)
(***************************************************************************)
StoredEntry(stamp, size) == [stamp |-> stamp, size |-> size]

RECURSIVE TextLen(_, _)
\* len(str(history)), from entry i on
TextLen(history, i) ==
    IF i > Len(history) THEN 0
    ELSE history[i].size + (IF i < Len(history) THEN 1 ELSE 0) + TextLen(history, i + 1)

\* lines 12-15, on the length of the text
count_string_tokens(length) == length \div 4

RECURSIVE chunk_loop(_, _, _, _, _, _)
\* lines 50-59: chunk and its length, the chunks so far
chunk_loop(words, i, chunk, chunk_len, chunks, max_tokens) ==
    IF i > Len(words) THEN Append(chunks, chunk)
    ELSE IF count_string_tokens(chunk_len + words[i].size) <= max_tokens
    THEN chunk_loop(words, i + 1, Append(chunk, words[i]),
                    chunk_len + 1 + words[i].size, chunks, max_tokens)
    ELSE chunk_loop(words, i + 1, <<words[i]>>, words[i].size,
                    Append(chunks, chunk), max_tokens)

\* lines 45-60: a chunk is the sequence of the words it holds
chunk_text(words) == chunk_loop(words, 1, <<>>, 0, <<>>, CHUNK_TOKENS)

\* lines 62-72: outcomes[i] is how summarize_text ends on chunk i; the call
\* stops at the first chunk on which send ends the process
summarize_chunks(chunks, outcomes) ==
    IF \E i \in 1..Len(chunks) : outcomes[i].kind = "exit"
    THEN [kind |-> "exit",
          calls |-> CHOOSE i \in 1..Len(chunks) :
                       /\ outcomes[i].kind = "exit"
                       /\ \A j \in 1..(i - 1) : outcomes[j].kind # "exit"]
    ELSE [kind |-> "return", calls |-> Len(chunks),
          summaries |-> [i \in 1..Len(chunks) |->
                            IF outcomes[i].kind = "summary"
                            THEN [summary_of |-> chunks[i]]
                            ELSE [raw |-> chunks[i]]]]

\* the common shape of the three getters: the placeholder for an empty
\* history, the summaries joined, followed by the last keep_last entries
\* when the getter appends them, or the stored list itself
get_history(history, placeholder, threshold, keep_last, outcomes) ==
    IF Len(history) = 0
    THEN [kind |-> "return", calls |-> 0, value |-> [t |-> "str", text |-> placeholder]]
    ELSE IF count_string_tokens(TextLen(history, 1)) > threshold
    THEN LET s == summarize_chunks(chunk_text(history), outcomes) IN
         IF s.kind = "exit" THEN s
         ELSE [kind |-> "return", calls |-> s.calls,
               value |-> [t |-> "summarized", summaries |-> s.summaries,
                          tail |-> LastN(history, keep_last)]]
    ELSE [kind |-> "return", calls |-> 0, value |-> [t |-> "list", items |-> history]]

\* get_response_history with the last 6 entries appended
get_response_history_with_tail(history, outcomes) ==
    get_history(history, "There is no previous response history.", RESPONSE_TOKENS, 6,
                outcomes)

\* lines 152-173
get_response_history(history, outcomes) ==
    get_history(history, "There is no previous response history.", RESPONSE_TOKENS, 0,
                outcomes)

\* get_thought_history summarizing from the threshold on
get_thought_history_eager(history, outcomes) ==
    get_history(history, "There is no thought history.", 0, 3, outcomes)

\* lines 201-221
get_thought_history(history, outcomes) ==
    get_history(history, "There is no thought history.", THOUGHT_TOKENS, 3, outcomes)

\* lines 100-120
get_conversation_history(history, outcomes) ==
    get_history(history, "There is no conversation history.", CONVERSATION_TOKENS, 6,
                outcomes)

RECURSIVE StoredLists(_, _)
\* the histories of up to n entries with sizes from the set, stamped in order
StoredLists(n, sizes) ==
    IF n = 0 THEN {<<>>}
    ELSE StoredLists(n - 1, sizes)
         \cup {Append(l, StoredEntry(n, s)) :
                  l \in {k \in StoredLists(n - 1, sizes) : Len(k) = n - 1}, s \in sizes}

\* lengths of serialized entries: small, 200 tokens exactly, above 200
\* tokens, and half a chunk
StoredSizes == {100, 800, 900, 6000}

\* how summarize_text can end, given the server
SummaryOutcomes == {summarize_text(sent) : sent \in SummaryResults[server_type]}

\* the getter under study is named by arg; its log holds a stored history
InitGetters ==
    /\ InitCommon
    /\ pc = "call"
    /\ ret = PyNone
    /\ arg \in {"get_response_history", "get_thought_history", "get_conversation_history"}

\* the log the getter reads, as earlier runs of the loop left it
Store ==
    /\ pc = "call"
    /\ pc' = "stored"
    /\ \E h \in StoredLists(MaxStored, StoredSizes) :
          /\ response_history' = IF arg = "get_response_history" THEN h ELSE <<>>
          /\ thought_history' = IF arg = "get_thought_history" THEN h ELSE <<>>
          /\ conversation_history' = IF arg = "get_conversation_history" THEN h ELSE <<>>
    /\ UNCHANGED <<config_vars, memories, fail_counter, execute_fail_counter, loop_vars,
                   requests, start_counter, outcome, only_unparsable, gateway_vars,
                   count_vars, fn_vars>>

\* the call of getter on the stored history, the Gateway answering each
\* summary request in one of the ways it can
Returned(r) ==
    /\ ret' = r
    /\ requests' = r.calls
    /\ pc' = IF r.kind = "exit" THEN "exited" ELSE "done"
    /\ UNCHANGED <<config_vars, memory_vars, fail_counter, execute_fail_counter,
                   loop_vars, start_counter, outcome, only_unparsable, gateway_vars,
                   count_vars, arg>>

GetResponseHistory ==
    /\ pc = "stored" /\ arg = "get_response_history"
    /\ \E outcomes \in [1..Len(chunk_text(response_history)) -> SummaryOutcomes] :
          Returned(get_response_history(response_history, outcomes))

GetThoughtHistory ==
    /\ pc = "stored" /\ arg = "get_thought_history"
    /\ \E outcomes \in [1..Len(chunk_text(thought_history)) -> SummaryOutcomes] :
          Returned(get_thought_history(thought_history, outcomes))

GetConversationHistory ==
    /\ pc = "stored" /\ arg = "get_conversation_history"
    /\ \E outcomes \in [1..Len(chunk_text(conversation_history)) -> SummaryOutcomes] :
          Returned(get_conversation_history(conversation_history, outcomes))

NextGetters == Store \/ GetResponseHistory \/ GetThoughtHistory \/ GetConversationHistory

SpecGetters == InitGetters /\ [][NextGetters]_vars

\* the log the getter under study reads, and its threshold
StoredLog ==
    CASE arg = "get_response_history" -> response_history
      [] arg = "get_thought_history" -> thought_history
      [] arg = "get_conversation_history" -> conversation_history

Threshold ==
    CASE arg = "get_response_history" -> RESPONSE_TOKENS
      [] arg = "get_thought_history" -> THOUGHT_TOKENS
      [] arg = "get_conversation_history" -> CONVERSATION_TOKENS

Tokens == count_string_tokens(TextLen(StoredLog, 1))

\* C13 as claimed: a stored history whose token count is below the threshold
\* is returned unchanged by its getter, and no Gateway call is made.
C13_BelowThresholdUnchanged ==
    (pc = "done" /\ Tokens < Threshold)
        => (ret.value = [t |-> "list", items |-> StoredLog] /\ ret.calls = 0)

\* C13 as amended: a non-empty stored history whose token count does not
\* exceed the threshold is returned unchanged by its getter; for an empty
\* history the getter returns a placeholder text; no Gateway call is made in
\* either case.
C13_NonEmptyBelowThresholdUnchanged ==
    (pc = "done" /\ Tokens <= Threshold)
        => /\ ret.calls = 0
           /\ requests = 0
           /\ IF StoredLog = <<>> THEN ret.value.t = "str"
              ELSE ret.value = [t |-> "list", items |-> StoredLog]

C13_Witness ==
    /\ pc = "done"
    /\ arg = "get_thought_history"
    /\ thought_history = <<StoredEntry(1, 800)>>
    /\ ret.value.t = "list"

C15_SummaryFailureRecovered ==
    ret # PyNone => ret.kind = "return"

(***************************************************************************)
(* memory.forget_everything, called on logs that any sequence of the       *)
(* Memory Store's writers has filled.                                      *)
(***************************************************************************)
\* forget_everything leaving memories.json alone
forget_everything_keeps_memories(logs) ==
    [thought_history |-> <<>>, response_history |-> <<>>,
     conversation_history |-> <<>>, memories |-> logs.memories]

\* lines 291-298: the four saves
forget_everything(logs) ==
    [thought_history |-> <<>>, response_history |-> <<>>,
     conversation_history |-> <<>>, memories |-> <<>>]

\* lines 291-298 when open() raises in the save numbered failing (1 the
\* thought history, 2 the response history, 3 the conversation history, 4 the
\* memories): the saves before it have been made, no handler undoes them
forget_everything_raising(logs, failing) ==
    [thought_history |-> IF failing > 1 THEN <<>> ELSE logs.thought_history,
     response_history |-> IF failing > 2 THEN <<>> ELSE logs.response_history,
     conversation_history |-> IF failing > 3 THEN <<>> ELSE logs.conversation_history,
     memories |-> logs.memories]

\* memory.add_to_conversation_history, lines 89-98
AddToConversationHistory ==
    /\ pc = "memory"
    /\ Len(conversation_history) < MaxOtherInserts
    /\ conversation_history' =
          LET history == Append(conversation_history, Str("Sent: ", "hi")) IN
          IF Len(history) > 20 THEN LastN(history, 20) ELSE history
    /\ UNCHANGED <<pc, config_vars, thought_history, response_history, memories,
                   fail_counter, execute_fail_counter, loop_vars, requests,
                   start_counter, outcome, only_unparsable, gateway_vars, count_vars,
                   fn_vars>>

\* memory.save_memory, lines 146-150
SaveMemory ==
    /\ pc = "memory"
    /\ Len(memories) < MaxOtherInserts
    /\ memories' = Append(memories, JStr("m"))
    /\ UNCHANGED <<pc, config_vars, thought_history, response_history,
                   conversation_history, fail_counter, execute_fail_counter, loop_vars,
                   requests, start_counter, outcome, only_unparsable, gateway_vars,
                   count_vars, fn_vars>>

ForgetEverything ==
    /\ pc = "memory"
    /\ pc' = "forgotten"
    /\ LET logs == forget_everything(
                       [thought_history |-> thought_history,
                        response_history |-> response_history,
                        conversation_history |-> conversation_history,
                        memories |-> memories])
       IN  /\ thought_history' = logs.thought_history
           /\ response_history' = logs.response_history
           /\ conversation_history' = logs.conversation_history
           /\ memories' = logs.memories
    /\ UNCHANGED <<config_vars, fail_counter, execute_fail_counter, loop_vars, requests,
                   start_counter, outcome, only_unparsable, gateway_vars, count_vars,
                   fn_vars>>

\* forget_everything with one of its four saves failing to open its file
ForgetEverythingFails ==
    /\ pc = "memory"
    /\ pc' = "forget_failed"
    /\ raised' = "OSError"
    /\ \E failing \in 1..4 :
         LET logs == forget_everything_raising(
                         [thought_history |-> thought_history,
                          response_history |-> response_history,
                          conversation_history |-> conversation_history,
                          memories |-> memories], failing)
         IN  /\ thought_history' = logs.thought_history
             /\ response_history' = logs.response_history
             /\ conversation_history' = logs.conversation_history
             /\ memories' = logs.memories
    /\ UNCHANGED <<config_vars, fail_counter, execute_fail_counter, loop_vars, requests,
                   start_counter, outcome, only_unparsable, last_step, gateway_failed,
                   count_vars, fn_vars>>

NextForget ==
    \/ AddToResponseHistory
    \/ SaveThought
    \/ AddToConversationHistory
    \/ SaveMemory
    \/ ForgetEverything
    \/ ForgetEverythingFails

SpecForget == InitMemory /\ [][NextForget]_vars

\* C16: once forget_everything has returned, the thought history, the
\* response history, the conversation history and the memories all load as
\* empty collections, whatever they held before.
C16_ForgetEmptiesEveryLog ==
    pc = "forgotten"
        => /\ thought_history = <<>>
           /\ response_history = <<>>
           /\ conversation_history = <<>>
           /\ memories = <<>>

\* forgotten after the response history was full and every log had entries
C16_Witness ==
    /\ pc = "forgotten"
    /\ responses_added > RESPONSE_HISTORY_CAP
    /\ thoughts_saved > 0
    /\ memories = <<>>

\* the message names one of the commands take_action implements
Recognised(assistant_message) ==
    /\ assistant_message.t = "text"
    /\ LET command == json_loads(assistant_message.toks) IN
       /\ command.ok
       /\ HasEnvelopeKeys(command.val)
       /\ DictGet(DictGet(command.val.items, "command").items, "name")
             \in {JStr("ask_user"), JStr("send_message"), JStr("send_log"),
                  JStr("web_search"), JStr("conversation_history")}

\* C17: each call of take_action with a recognised command name appends
\* exactly one entry to the response history.
C17_OneEntryPerRecognisedAction ==
    [][(pc = "take_action" /\ Recognised(evaluated_decision))
          => /\ responses_added' = responses_added + 1
             /\ response_history' # response_history]_vars

\* C18: no exception leaves take_action, whatever its input: after the call
\* the loop goes on to its next iteration.
C18_NothingEscapesTakeAction ==
    [][pc = "take_action" => (raised' = "none" /\ pc' = "think")]_vars


(***************************************************************************)
(* Benchmark configuration: benchmark/validation.py, benchmark/templates.py *)
(* A number of a configuration or of a rule is held in hundredths, so that *)
(* 0.01 is 1 and the int 1 is 100; JFloat(x) holds x hundredths.           *)
(***************************************************************************)
\* a rules dict that nests other rules dicts, its items in order
Section(items) == [section |-> items]

IsSection(rules) == "section" \in DOMAIN rules

\* the rules dict {}: .get() finds none of the keys a rule can have
NoRule ==
    [type |-> "none", allowed |-> {}, allowed_items |-> {}, min |-> {},
     max |-> {}, validator |-> "none", required |-> FALSE]

Rule(type) == [NoRule EXCEPT !.type = type]

\* "min" and "max" of a rule: the set is empty when the key is absent
Ranged(type, min, max) == [Rule(type) EXCEPT !.min = {min}, !.max = {max}]

Allowed(type, strings) == [Rule(type) EXCEPT !.allowed = {JStr(s) : s \in strings}]

VALIDATION_RULES ==
    Section(<<
        Item("system", Section(<<
            Item("debug", Rule("bool")),
            Item("log_level",
                 Allowed("str", {"DEBUG", "INFO", "WARNING", "ERROR", "CRITICAL"})),
            Item("timestamp_format", [Rule("str") EXCEPT !.validator = "strftime"]),
            Item("max_retries", Ranged("int", 100, 1000)),
            Item("retry_delay", Ranged("int", 100, 6000))>>)),
        Item("directories", Section(<<
            Item("*", [Rule("str") EXCEPT !.validator = "relative",
                                          !.required = TRUE])>>)),
        Item("metrics", Section(<<
            Item("*", Section(<<
                Item("enabled", Rule("bool")),
                Item("weight", Ranged("float", 0, 100)),
                Item("threshold", Ranged("float", 0, 100))>>))>>)),
        Item("analysis", Section(<<
            Item("statistical_significance", Ranged("float", 1, 10)),
            Item("min_samples", Ranged("int", 100, 10000)),
            Item("outlier_threshold", Ranged("float", 100, 500)),
            Item("trend_window", [Rule("str") EXCEPT !.validator = "window"])>>)),
        Item("visualization", Section(<<
            Item("theme",
                 Allowed("str", {"plotly", "plotly_white", "plotly_dark", "seaborn"})),
            Item("color_scheme",
                 Allowed("str", {"RdYlBu", "Viridis", "Plasma", "Inferno", "Magma"})),
            Item("interactive", Rule("bool")),
            Item("plot_width", Ranged("int", 10000, 300000)),
            Item("plot_height", Ranged("int", 10000, 200000))>>)),
        Item("reporting", Section(<<
            Item("formats",
                 [Rule("list") EXCEPT
                     !.allowed_items = {JStr(s) : s \in {"md", "html", "pdf", "json"}}]),
            Item("include_raw_data", Rule("bool")),
            Item("auto_open", Rule("bool"))>>))>>)

\* isinstance(value, expected_type); a bool is an int
isinstance(value, type) ==
    IF type = "int" THEN value.t \in {"int", "bool"} ELSE value.t = type

\* the number a numeric value compares as, in hundredths
Hundredths(value) ==
    CASE value.t = "int" -> value.n * 100
      [] value.t = "float" -> value.x
      [] value.t = "bool" -> IF value.b THEN 100 ELSE 0

\* strings x with x[-1] in "smhd" and x[:-1].isdigit()
TrendWindows == {"5m", "1h", "30m", "15m"}

\* strings os.path.isabs() accepts
AbsolutePaths == {"/var/logs"}

\* strings that contain ".."
TraversalPaths == {"../logs"}

\* the validator lambdas: "true", "false", or "raise" when the lambda raises
validator(name, value) ==
    CASE name = "strftime" ->
            IF value.t # "str" THEN "raise" ELSE IF value.s # "" THEN "true" ELSE "false"
      [] name = "window" ->
            IF value.t # "str" \/ value.s = "" THEN "raise"
            ELSE IF value.s \in TrendWindows THEN "true" ELSE "false"
      [] name = "relative" ->
            IF value.t # "str" THEN "raise"
            ELSE IF value.s \notin AbsolutePaths THEN "true" ELSE "false"

ValidationMessage(path, error) == [path |-> path, error |-> error]

validate_value(value, rules, path) ==
    LET r == IF IsSection(rules) THEN NoRule ELSE rules
        one(cond, error) == IF cond THEN <<ValidationMessage(path, error)>> ELSE <<>>
        numeric == value.t \in {"int", "float", "bool"}
    IN  one(r.type # "none" /\ ~isinstance(value, r.type), "Expected type")
        \o one(r.allowed # {} /\ value \notin r.allowed, "Value must be one of")
        \o one(/\ r.allowed_items # {}
               /\ value.t = "list"
               /\ \E i \in 1..Len(value.elems) : value.elems[i] \notin r.allowed_items,
               "Invalid items")
        \o one(numeric /\ \E min_val \in r.min : Hundredths(value) < min_val,
               "below minimum")
        \o one(numeric /\ \E max_val \in r.max : Hundredths(value) > max_val,
               "above maximum")
        \o one(r.validator # "none" /\ validator(r.validator, value) = "false",
               "Failed custom validation")
        \o one(r.validator # "none" /\ validator(r.validator, value) = "raise",
               "Validation error")

RECURSIVE validate_config(_, _, _)
validate_config(config, rules, path) ==
    LET fields == IF IsSection(rules) THEN rules.section ELSE <<>>
        missing ==
            SelectSeq(fields, LAMBDA f :
                /\ f.key # "*"
                /\ ~IsSection(f.val)
                /\ f.val.required
                /\ ~HasKey(config, f.key))
        required_errors ==
            [i \in 1..Len(missing) |->
                ValidationMessage(Append(path, missing[i].key), "Missing required field")]
        field_errors[i \in 0..Len(config)] ==
            IF i = 0 THEN <<>>
            ELSE
                LET key == config[i].key
                    value == config[i].val
                    current_path == Append(path, key)
                    field_rules ==
                        IF HasKey(fields, key) THEN DictGet(fields, key)
                        ELSE IF HasKey(fields, "*") THEN DictGet(fields, "*")
                        ELSE NoRule
                    nested == IsSection(field_rules) \/ field_rules.type = "none"
                IN  field_errors[i - 1]
                    \o (IF value.t = "dict" /\ nested
                        THEN validate_config(value.items, field_rules, current_path)
                        ELSE validate_value(value, field_rules, current_path))
    IN  required_errors \o field_errors[Len(config)]

validate_directory_structure(config) ==
    LET directories ==
            IF HasKey(config, "directories")
            THEN DictGet(config, "directories").items
            ELSE <<>>
        one(dir_type, cond, error) ==
            IF cond THEN <<ValidationMessage(<<"directories", dir_type>>, error)>>
            ELSE <<>>
        errors[i \in 0..Len(directories)] ==
            IF i = 0 THEN <<>>
            ELSE
                LET dir_type == directories[i].key
                    path == directories[i].val
                IN  errors[i - 1]
                    \o (IF path.t # "str"
                        THEN one(dir_type, TRUE, "Error validating directory")
                        ELSE one(dir_type, path.s \in AbsolutePaths, "must be relative")
                             \o one(dir_type, path.s \in TraversalPaths,
                                    "cannot contain '..'")
                             \o one(dir_type,
                                    path.s \in AbsolutePaths \cup TraversalPaths,
                                    "must be within project directory"))
    IN  errors[Len(directories)]

validate_and_update_config(config) ==
    LET all_errors ==
            validate_config(config.items, VALIDATION_RULES, <<>>)
            \o validate_directory_structure(config.items)
    IN  IF all_errors # <<>>
        THEN [kind |-> "raise", exception |-> "ValidationError", errors |-> all_errors]
        ELSE [kind |-> "return", value |-> <<config, all_errors>>]

\* one entry of a template's "metrics"
Metric(enabled, weight, threshold) ==
    JDict(<<Item("enabled", JBool(enabled)),
            Item("weight", JFloat(weight)),
            Item("threshold", JFloat(threshold))>>)

\* a template: its system retries, its four metrics, its analysis settings
Template(max_retries, retry_delay, metrics, significance, min_samples, outlier, window) ==
    JDict(<<
        Item("system", JDict(<<
            Item("debug", JBool(TRUE)),
            Item("log_level", JStr("DEBUG")),
            Item("timestamp_format", JStr("%Y%m%d_%H%M%S")),
            Item("max_retries", JInt(max_retries)),
            Item("retry_delay", JInt(retry_delay))>>)),
        Item("metrics", JDict(<<
            Item("response_quality", metrics[1]),
            Item("context_usage", metrics[2]),
            Item("memory_retention", metrics[3]),
            Item("decision_quality", metrics[4])>>)),
        Item("analysis", JDict(<<
            Item("statistical_significance", JFloat(significance)),
            Item("min_samples", JInt(min_samples)),
            Item("outlier_threshold", JFloat(outlier)),
            Item("trend_window", JStr(window))>>))>>)

FAST_TEST ==
    Template(1, 1,
             <<Metric(TRUE, 100, 50), Metric(FALSE, 0, 0),
               Metric(FALSE, 0, 0), Metric(TRUE, 100, 50)>>,
             10, 3, 300, "5m")

THOROUGH ==
    Template(5, 10,
             <<Metric(TRUE, 100, 80), Metric(TRUE, 100, 70),
               Metric(TRUE, 100, 90), Metric(TRUE, 100, 80)>>,
             1, 10, 200, "1h")

MEMORY_TEST ==
    Template(3, 5,
             <<Metric(TRUE, 50, 60), Metric(TRUE, 150, 80),
               Metric(TRUE, 200, 90), Metric(TRUE, 50, 60)>>,
             5, 7, 250, "30m")

PERFORMANCE ==
    Template(0, 0,
             <<Metric(TRUE, 50, 60), Metric(FALSE, 0, 0),
               Metric(FALSE, 0, 0), Metric(TRUE, 200, 70)>>,
             5, 20, 300, "15m")

TEMPLATES ==
    [name \in {"fast", "thorough", "memory", "performance"} |->
        CASE name = "fast" -> FAST_TEST
          [] name = "thorough" -> THOROUGH
          [] name = "memory" -> MEMORY_TEST
          [] name = "performance" -> PERFORMANCE]

get_template(name) ==
    IF name \notin DOMAIN TEMPLATES
    THEN [kind |-> "raise", exception |-> "ValueError"]
    ELSE [kind |-> "return", value |-> TEMPLATES[name]]

\* config[section][key] = value, the section created when it is missing
WithField(config, section, key, value) ==
    LET old == IF HasKey(config.items, section)
               THEN DictGet(config.items, section).items
               ELSE <<>>
    IN  JDict(DictSet(config.items, section, JDict(DictSet(old, key, value))))

\* the empty configuration and the one whose only content is an empty system
IncompleteConfigs == {JDict(<<>>), JDict(<<Item("system", JDict(<<>>))>>)}

\* values written into a field of a template to make the other configurations
FieldValues ==
    [section : {"system"}, key : {"max_retries"},
     value : {JInt(n) : n \in 0..MaxRetriesInput}]
    \cup [section : {"system"}, key : {"debug", "log_level", "timestamp_format"},
          value : {JInt(1), JStr("INFO"), JStr("")}]
    \cup [section : {"analysis"}, key : {"statistical_significance", "trend_window"},
          value : {JFloat(1), JFloat(11), JInt(1), JStr("5x"), JStr("")}]
    \cup [section : {"metrics"}, key : {"response_quality"},
          value : {Metric(TRUE, 150, 50), Metric(TRUE, 1, 100), JDict(<<>>)}]
    \cup [section : {"directories"}, key : {"logs"},
          value : {JStr("logs"), JStr("/var/logs"), JStr("../logs"), JInt(1)}]
    \cup [section : {"reporting"}, key : {"formats"},
          value : {JList(<<JStr("md")>>), JList(<<JStr("doc")>>), JStr("md")}]

ConfigInputs ==
    IncompleteConfigs
    \cup {TEMPLATES[name] : name \in DOMAIN TEMPLATES}
    \cup {WithField(FAST_TEST, f.section, f.key, f.value) : f \in FieldValues}
    \cup {JDict(<<Item("system", JInt(5))>>)}

TemplateNames == DOMAIN TEMPLATES \cup {"unknown"}

\* either a template is asked for by name, or a configuration is at hand
InitConfig ==
    /\ InitCommon
    /\ \/ pc = "get_template" /\ arg = PyNone
       \/ pc = "validate" /\ arg \in ConfigInputs
    /\ ret = PyNone

GetTemplate ==
    /\ pc = "get_template"
    /\ \E name \in TemplateNames :
         LET r == get_template(name) IN
         IF r.kind = "raise"
         THEN ret' = r /\ pc' = "done" /\ UNCHANGED arg
         ELSE arg' = r.value /\ pc' = "validate" /\ UNCHANGED ret
    /\ UNCHANGED <<config_vars, memory_vars, fail_counter, execute_fail_counter,
                   loop_vars, requests, start_counter, outcome, only_unparsable,
                   gateway_vars, count_vars>>

ValidateAndUpdateConfig ==
    /\ pc = "validate"
    /\ ret' = validate_and_update_config(arg)
    /\ pc' = "done"
    /\ UNCHANGED <<config_vars, memory_vars, fail_counter, execute_fail_counter,
                   loop_vars, requests, start_counter, outcome, only_unparsable,
                   gateway_vars, count_vars, arg>>

NextConfig == GetTemplate \/ ValidateAndUpdateConfig

SpecConfig == InitConfig /\ [][NextConfig]_vars

\* C19: for every template name in TEMPLATES, validating the template
\* completes without raising and returns an empty error list.
C19_EveryTemplateIsValid ==
    (pc = "done" /\ \E name \in DOMAIN TEMPLATES : arg = TEMPLATES[name]) =>
        (ret.kind = "return" /\ ret.value[2] = <<>>)

\* C20: validate_and_update_config raises for the empty configuration and
\* for one whose only content is an empty system section; neither is ever
\* returned as valid.
C20_IncompleteConfigRaises ==
    (pc = "done" /\ arg \in IncompleteConfigs) => ret.kind = "raise"


(***************************************************************************)
(* The failure counter of decide.                                          *)
(***************************************************************************)
\* C21: every decide attempt whose answer is invalid before and after the
\* repair, the repair extracting no JSON at all included, adds exactly one
\* to the failure counter before it gives up or retries.
C21_InvalidAfterRepairCounts ==
    [][(pc = "decide" /\ outcome' \in {"no_json", "retry", "give_up"})
          => fail_counter' = fail_counter + 1]_vars


\* C22: forget_everything is all-or-nothing: when persisting one of the logs
\* fails part-way no log has been reset, every log holds what it held before
\* the call.
C22_ForgetIsAllOrNothing ==
    [][(pc = "memory" /\ pc' = "forget_failed")
          => /\ thought_history' = thought_history
             /\ response_history' = response_history
             /\ conversation_history' = conversation_history
             /\ memories' = memories]_vars


(***************************************************************************)
(* web_search on its own: one call, the query and the answers of the       *)
(* capability drawn from the inputs.                                       *)
(***************************************************************************)
SearchInputs ==
    [query : {"", "cats"}, capability : [1..MaxSearchCalls -> CapabilityAnswers]]

InitSearch ==
    /\ InitCommon
    /\ pc = "call"
    /\ arg \in SearchInputs
    /\ ret = PyNone

WebSearch ==
    /\ pc = "call"
    /\ ret' = web_search(arg.query, arg.capability)
    /\ pc' = "done"
    /\ UNCHANGED <<config_vars, memory_vars, fail_counter, execute_fail_counter,
                   loop_vars, requests, start_counter, outcome, only_unparsable,
                   gateway_vars, count_vars, arg>>

NextSearch == WebSearch

SpecSearch == InitSearch /\ [][NextSearch]_vars

\* the answers to the attempts web_search may make
Attempted(capability) == {capability[i] : i \in 1..DUCKDUCKGO_MAX_ATTEMPTS}

\* C25, as stated: web_search makes at most 3 search attempts and then
\* returns, whatever the capability does; when no attempt yielded results it
\* returns the 'no results' placeholder and never an empty payload.
C25_BoundedSearchNeverEmpty ==
    pc = "done" =>
        /\ ret.calls <= DUCKDUCKGO_MAX_ATTEMPTS
        /\ ret.kind = "return"
        /\ ret.value # EmptyPayload
        /\ Attempted(arg.capability) \subseteq {"empty", "raise"}
              => ret.value = NoResultsPayload

\* C25, amended: web_search never makes more than 3 search attempts; unless
\* the user interrupts an attempt it returns; for a non-empty query of which
\* every attempt failed or found nothing it returns the 'no results'
\* placeholder; for an empty query it makes no attempt and returns the empty
\* payload.
C25_BoundedSearch ==
    pc = "done" =>
        /\ ret.calls <= DUCKDUCKGO_MAX_ATTEMPTS
        /\ ret.kind = "raise" => arg.capability[ret.calls] = "interrupt"
        /\ (arg.query # "" /\ Attempted(arg.capability) \subseteq {"empty", "raise"})
              => ret = SearchResult("return", NoResultsPayload, DUCKDUCKGO_MAX_ATTEMPTS)
        /\ arg.query = "" => ret = SearchResult("return", EmptyPayload, 0)

\* three attempts, the first raising and the others finding nothing
C25_Witness ==
    /\ pc = "done"
    /\ arg.query = "cats"
    /\ arg.capability[1] = "raise"
    /\ Attempted(arg.capability) = {"empty", "raise"}
    /\ arg.capability[MaxSearchCalls] = "results"
    /\ ret.calls = DUCKDUCKGO_MAX_ATTEMPTS
    /\ ret.value = NoResultsPayload


(***************************************************************************)
(* take_action on its own: it is called again and again, with a decision   *)
(* as decide returns it (the text, or the mapping the repair parsed) or    *)
(* with another text, the outside world answering as env says.             *)
(***************************************************************************)
\* recognised commands whose args lack what the handler reads
NoArgsTexts ==
    {PyText(dumps(Envelope(name, JDict(<<>>)))) :
        name \in {"ask_user", "send_message", "web_search"}}

\* what decide returns for the wrapped and for the plain envelopes
Decisions ==
    {decide_message(Wrapped(<<Word("ok")>>, e, <<>>), 0).ret : e \in Envelopes}
    \cup {decide_message(PyText(dumps(e)), 0).ret : e \in Envelopes}

ExecuteMessages == Decisions \cup NoArgsTexts \cup {ProseText, NoCommandText}

\* every message with the outside world at its best, and the commands that
\* read the outside world with each of its answers
ExecuteInputs ==
    {[message |-> m, env |-> DefaultEnv] : m \in ExecuteMessages}
    \cup {[message |-> AskUserText, env |-> [DefaultEnv EXCEPT !.ask = a]] :
             a \in AskOutcomes}
    \cup {[message |-> WebSearchText, env |-> [DefaultEnv EXCEPT !.search = s]] :
             s \in SearchCapabilities}
    \cup {[message |-> HistoryText, env |-> [DefaultEnv EXCEPT !.history = h]] :
             h \in HistoryOutcomes}

\* take_action makes no Gateway request but the summary of env.history
InitExecute == InitCommon /\ NoFunction /\ pc = "idle" /\ server_type = "lmstudio"

ExecuteTakeAction ==
    /\ pc = "idle"
    /\ responses_added < MaxExecuted
    /\ \E input \in ExecuteInputs :
          LET e == take_action(input.message, telegram_configured, input.env) IN
          /\ input.env.history = "exit" => response_history # <<>>
          /\ arg' = input
          /\ ret' = e
          /\ conversation_history' = conversation_history \o e.convo
          /\ IF e.question # PyNone
             THEN /\ response_history' =
                       add_to_response_history(response_history,
                           ResponseEntry(e.question, e.response, responses_added + 1))
                  /\ responses_added' = responses_added + 1
             ELSE UNCHANGED <<response_history, responses_added>>
          /\ execute_fail_counter' =
                IF e.how = "done" THEN 0 ELSE execute_fail_counter
          /\ raised' = CASE e.how = "raised" -> "Exception"
                          [] e.how = "exit" -> "SystemExit"
                          [] e.how = "interrupted" -> "KeyboardInterrupt"
                          [] OTHER -> "none"
          /\ pc' = IF raised' = "none" THEN "idle" ELSE "exited"
    /\ UNCHANGED <<config_vars, thought_history, memories, fail_counter, loop_vars,
                   requests, start_counter, outcome, only_unparsable, last_step,
                   gateway_failed, thoughts_saved>>

NextExecute == ExecuteTakeAction

SpecExecute == InitExecute /\ [][NextExecute]_vars

\* the command of a message that decodes to an envelope, None otherwise
CommandOf(message) ==
    IF message.t = "text" /\ json_loads(message.toks).ok
                          /\ HasEnvelopeKeys(json_loads(message.toks).val)
    THEN DictGet(json_loads(message.toks).val.items, "command")
    ELSE PyNone

NameOf(message) == DictGet(CommandOf(message).items, "name")

ArgsOf(message) == DictGet(CommandOf(message).items, "args")

\* the message names a command outside the closed set
NameOutside(message) == CommandOf(message) # PyNone /\ ~Recognised(message)

\* the handler of the command raises: what it reads is not in the args, the
\* Telegram exchange fails, or the summary request ends the process
HandlerRaises(message, env) ==
    /\ Recognised(message)
    /\ \/ NameOf(message) = JStr("ask_user")
          /\ (~HasMessage(ArgsOf(message)) \/ env.ask = "raise")
       \/ NameOf(message) \in {JStr("send_message"), JStr("send_log")}
          /\ ~HasMessage(ArgsOf(message))
       \/ NameOf(message) = JStr("web_search") /\ ~HasQuery(ArgsOf(message))
       \/ NameOf(message) = JStr("conversation_history") /\ env.history = "exit"

\* C23: when take_action receives a command whose name is outside the closed
\* set, or an action handler raises, the stored response history is left
\* exactly as it was before the call.
C23_FailedDispatchLeavesHistory ==
    [][(/\ pc = "idle"
        /\ arg' # PyNone
        /\ NameOutside(arg'.message) \/ HandlerRaises(arg'.message, arg'.env))
          => /\ response_history' = response_history
             /\ responses_added' = responses_added]_vars

\* the user's answer could not be fetched, the entry written before is there
C23_Witness ==
    /\ pc = "idle"
    /\ arg # PyNone
    /\ arg.message = AskUserText
    /\ arg.env.ask = "raise"
    /\ ret.how = "caught"
    /\ Len(response_history) = 1
    /\ responses_added = 1

\* C24: if the search capability raises an exception while a web_search
\* command is executed, no response-history entry is written for the command.
C24_SearchFailureWritesNothing ==
    [][(/\ pc = "idle"
        /\ arg' # PyNone
        /\ arg'.message = WebSearchText
        /\ arg'.env.search[1] = "raise")
          => /\ response_history' = response_history
             /\ responses_added' = responses_added]_vars

Exit(status) == [kind |-> "exit", status |-> status]

\* where main_loop goes when exception is raised at position at
main_loop_from(at, exception) ==
    CASE at = "run_think" /\ exception = "KeyboardInterrupt" -> "confirm"
      [] at = "run_think" /\ exception = "Exception" -> "waiting"
      [] OTHER -> "exited"       \* lines 101-103, 112-116, or no handler

\* the exit status when exception ends the process
exit_status(exception) == IF exception = "KeyboardInterrupt" THEN Exit(0) ELSE Exit(1)

InitInterrupt == InitCommon /\ NoFunction /\ pc = "run_think"

\* run_think returns, or input() returns, or the sleep is over: the loop
\* calls run_think again
NextRunThink ==
    /\ pc \in {"run_think", "confirm", "waiting"}
    /\ iteration < MaxTurns
    /\ iteration' = iteration + 1
    /\ raised' = "none"
    /\ pc' = "run_think"
    /\ UNCHANGED <<config_vars, memory_vars, fail_counter, execute_fail_counter,
                   thinking, decision, evaluated_decision, requests, start_counter,
                   outcome, only_unparsable, last_step, gateway_failed, count_vars,
                   fn_vars>>

\* an exception leaves the code main_loop is in: run_think raises, send ends
\* the process, the user presses Ctrl+C, input() meets the end of the input
LoopRaises ==
    /\ pc \in {"run_think", "confirm", "waiting"}
    /\ \E exception \in {"Exception", "SystemExit", "KeyboardInterrupt"} :
          /\ pc = "waiting" => exception = "KeyboardInterrupt"
          /\ pc = "confirm" => exception # "SystemExit"
          /\ raised' = exception
          /\ pc' = main_loop_from(pc, exception)
          /\ ret' = IF pc' = "exited" THEN exit_status(exception) ELSE ret
    /\ UNCHANGED <<config_vars, memory_vars, fail_counter, execute_fail_counter,
                   loop_vars, requests, start_counter, outcome, only_unparsable,
                   last_step, gateway_failed, count_vars, arg>>

NextInterrupt == NextRunThink \/ LoopRaises

SpecInterrupt == InitInterrupt /\ [][NextInterrupt]_vars

\* C26: a single user interrupt never shuts the process down: the loop asks
\* for confirmation; the clean shutdown (exit 0) happens only on a second
\* interrupt, one that meets the confirmation prompt.
C26_SingleInterruptNeverExits ==
    [][raised' = "KeyboardInterrupt"
          => IF pc = "confirm"
             THEN pc' = "exited" /\ ret' = Exit(0)
             ELSE pc' = "confirm"]_vars


(***************************************************************************)
(* memory.chunk_text on its own: one call on a text known by the lengths   *)
(* of the words text.split(" ") gives, with a budget of max_tokens.        *)
(***************************************************************************)
RECURSIVE WordLists(_)
WordLists(n) ==
    IF n = 0 THEN {<<>>}
    ELSE LET shorter == WordLists(n - 1) IN
         shorter \cup {Append(w, [size |-> s]) : w \in shorter, s \in 0..MaxWordLen}

ChunkInputs == [words : WordLists(MaxWords) \ {<<>>}, max_tokens : 1..MaxBudget]

InitChunk ==
    /\ InitCommon
    /\ pc = "call"
    /\ arg \in ChunkInputs
    /\ ret = PyNone

ChunkText ==
    /\ pc = "call"
    /\ ret' = [kind |-> "return",
               value |-> chunk_loop(arg.words, 1, <<>>, 0, <<>>, arg.max_tokens)]
    /\ pc' = "done"
    /\ UNCHANGED <<config_vars, memory_vars, fail_counter, execute_fail_counter,
                   loop_vars, requests, start_counter, outcome, only_unparsable,
                   gateway_vars, count_vars, arg>>

NextChunk == ChunkText

SpecChunk == InitChunk /\ [][NextChunk]_vars

RECURSIVE SizeSum(_, _)
SizeSum(chunk, i) == IF i > Len(chunk) THEN 0 ELSE chunk[i].size + SizeSum(chunk, i + 1)

\* len() of chunk i: its words, a space before each, but for the first word of
\* a chunk that an over-budget word began
ChunkLen(chunks, i) ==
    LET chunk == chunks[i] IN
    IF chunk = <<>> THEN 0
    ELSE SizeSum(chunk, 1) + Len(chunk) - (IF i = 1 THEN 0 ELSE 1)

\* C27: for every text and every max_tokens, each chunk chunk_text produces
\* has a token count (length / 4, rounded down) of at most max_tokens.
C27_ChunksWithinBudget ==
    pc = "done" =>
        \A i \in 1..Len(ret.value) :
            count_string_tokens(ChunkLen(ret.value, i)) <= arg.max_tokens


(***************************************************************************)
(* Two agent instances on the same memory files.  Each calls               *)
(* add_to_response_history again and again; a call is its load (with the   *)
(* append, made on the instance's own list) and, later, its save.  pc, arg *)
(* and ret are per instance: where it is, its list response_history, the   *)
(* calls it has returned from.                                             *)
(***************************************************************************)
Instances == {1, 2}

\* save_response_history with the entries of the file kept: the new entry
\* is added to what the file holds
save_response_history_merging(stored, history) ==
    IF history = <<>> THEN stored ELSE Append(stored, history[Len(history)])

\* lines 185-188: the file is overwritten with history
save_response_history(stored, history) == history

InitConcurrent ==
    /\ InitCommon
    /\ pc = [i \in Instances |-> "idle"]
    /\ arg = [i \in Instances |-> <<>>]
    /\ ret = [i \in Instances |-> 0]

\* lines 192-197 in instance i
LoadAndAppend(i) ==
    /\ pc[i] = "idle"
    /\ ret[i] < MaxAdds
    /\ arg' = [arg EXCEPT ![i] =
                  add_to_response_history(response_history,
                      ResponseEntry(Str("instance ", i), Str("", "No response."),
                                    responses_added + 1))]
    /\ responses_added' = responses_added + 1
    /\ pc' = [pc EXCEPT ![i] = "loaded"]
    /\ UNCHANGED <<config_vars, memory_vars, fail_counter, execute_fail_counter,
                   loop_vars, requests, start_counter, outcome, only_unparsable,
                   gateway_vars, thoughts_saved, ret>>

\* line 199 in instance i
SaveResponseHistory(i) ==
    /\ pc[i] = "loaded"
    /\ response_history' = save_response_history(response_history, arg[i])
    /\ pc' = [pc EXCEPT ![i] = "idle"]
    /\ ret' = [ret EXCEPT ![i] = ret[i] + 1]
    /\ UNCHANGED <<config_vars, thought_history, conversation_history, memories,
                   fail_counter, execute_fail_counter, loop_vars, requests,
                   start_counter, outcome, only_unparsable, gateway_vars, count_vars,
                   arg>>

NextConcurrent == \E i \in Instances : LoadAndAppend(i) \/ SaveResponseHistory(i)

SpecConcurrent == InitConcurrent /\ [][NextConcurrent]_vars

\* C28: Memory Store mutations are last-writer-wins: a save leaves in the
\* store the list its instance loaded, with the instance's entry, and nothing
\* another instance saved in between.
C28_LastWriterWins ==
    [][\A i \in Instances :
          (pc[i] = "loaded" /\ pc'[i] = "idle") => response_history' = arg[i]]_vars

\* both instances have returned from their call, the calls interleaved, and
\* the entry of one of them is not in the stored history
C28_Witness ==
    /\ \A i \in Instances : pc[i] = "idle" /\ ret[i] = 1
    /\ responses_added = 2
    /\ Len(response_history) = 1


(***************************************************************************)
(* The decision failure counter over the life of the process: decide is    *)
(* called again and again as in SpecDecide, and between its calls          *)
(* take_action dispatches a command and forget_everything empties the logs.*)
(***************************************************************************)
\* take_action with one failure counter for the two modules
take_action_counters_shared(how, counters) ==
    IF how = "done" THEN [decide |-> 0, execute |-> 0] ELSE counters

\* action_execute lines 19-22 and 102-103: take_action resets the counter
\* of its own module, action_decisions.fail_counter is another variable
take_action_counters(how, counters) ==
    [decide |-> counters.decide,
     execute |-> IF how = "done" THEN 0 ELSE counters.execute]

DispatchBetweenCalls ==
    /\ pc \in {"idle", "returned"}
    /\ responses_added < MaxDispatched
    /\ LET e == take_action(SendMessageText, telegram_configured, DefaultEnv)
           c == take_action_counters(e.how, [decide |-> fail_counter,
                                             execute |-> execute_fail_counter])
       IN  /\ response_history' =
                 add_to_response_history(response_history,
                     ResponseEntry(e.question, e.response, responses_added + 1))
           /\ conversation_history' = conversation_history \o e.convo
           /\ fail_counter' = c.decide
           /\ execute_fail_counter' = c.execute
    /\ responses_added' = responses_added + 1
    /\ UNCHANGED <<pc, config_vars, thought_history, memories, loop_vars, requests,
                   start_counter, outcome, only_unparsable, gateway_vars,
                   thoughts_saved, fn_vars>>

ForgetBetweenCalls ==
    /\ pc \in {"idle", "returned"}
    /\ response_history # <<>>
    /\ LET logs == forget_everything(
                       [thought_history |-> thought_history,
                        response_history |-> response_history,
                        conversation_history |-> conversation_history,
                        memories |-> memories])
       IN  /\ thought_history' = logs.thought_history
           /\ response_history' = logs.response_history
           /\ conversation_history' = logs.conversation_history
           /\ memories' = logs.memories
    /\ UNCHANGED <<pc, config_vars, fail_counter, execute_fail_counter, loop_vars,
                   requests, start_counter, outcome, only_unparsable, gateway_vars,
                   count_vars, fn_vars>>

NextCounter ==
    \/ CallDecide
    \/ DecideAttempt
    \/ DispatchBetweenCalls
    \/ ForgetBetweenCalls

SpecCounter == InitDecide /\ [][NextCounter]_vars

\* C29: the decision failure counter never decreases, across decide calls,
\* dispatches and forget_everything; so once it has reached MAX_FAILURES a
\* decide attempt whose answer fails validation after the repair returns no
\* decision at once, without a retry.
C29_CounterNeverDecreases ==
    [][/\ fail_counter' >= fail_counter
       /\ (/\ pc = "decide"
           /\ fail_counter >= MAX_FAILURES
           /\ outcome' \in {"retry", "give_up"})
             => /\ outcome' = "give_up"
                /\ pc' = "returned"
                /\ decision' = PyNone]_vars

\* a call that began with the counter at the bound, after a dispatch and a
\* forget_everything, gave up on its first attempt
C29_Witness ==
    /\ pc = "returned"
    /\ start_counter >= MAX_FAILURES
    /\ outcome = "give_up"
    /\ requests = 1
    /\ execute_fail_counter = 0
    /\ responses_added = 1
    /\ response_history = <<>>

====
